---- MODULE Spec2Model ----
(***************************************************************************)
(* A model of the path tracer's render driver (src/src/main.rs, fn main),  *)
(* of its recursive integrator (fn ray_color) and of its geometry          *)
(* (src/src/hittable.rs, src/src/aabb.rs), colour output (src/src/math.rs) *)
(* and textures (src/src/texture.rs, src/src/perlin.rs).                   *)
(*                                                                         *)
(* Spec        : main thread, worker threads, progress monitor, the mutex  *)
(*               around the framebuffer and the per-worker mpsc channels.  *)
(* FairSpec    : Spec with the main thread and the workers scheduled       *)
(*               fairly.                                                   *)
(* SpecRayColor: one call of ray_color, unfolded into its call stack.      *)
(* SpecWorld   : a World filled by register_material and push, then        *)
(*               traced.                                                   *)
(* SpecHit     : Hittable::hit on one hittable; SpecHitList: hit_hittables *)
(*               on a list.                                                *)
(* SpecSurround: AABB::surrounding_box; SpecBoxHit: AABB::hit.             *)
(* SpecBvh     : new_bvh_node, unfolded into its call stack, and a ray     *)
(*               tested against the node it returns.                       *)
(* SpecWriteColor: Vector3::write_color; SpecTex: the Image arm of         *)
(*               Texture::get_color_value; SpecPerm: perlin_generate_perm. *)
(* SpecSamples : Spec for scenes of any sample count.                      *)
(* SpecProgress: the progress reports of the workers and the monitor, for  *)
(*               images of any size, fairly scheduled.                     *)
(*                                                                         *)
(* Colours are kept symbolic: a colour is the bag of the samples that were *)
(* added into it, so that `+=` on colours is bag sum and a lost, repeated  *)
(* or misplaced contribution is visible whatever the sample values are.    *)
(***************************************************************************)
EXTENDS Integers, Sequences, FiniteSets, Bags, TLC

\* ------------------------------------------------------------------ bounds
\* image_width and image_height of the selected scene (main.rs:466-467).
Width == 2
Height == 2
\* thread_count (main.rs:309 sets 10).
NumWorkers == 2
\* a worker reports after this many pixels (main.rs:529 uses 50).
ReportEvery == 2
\* samples_per_pixel of the selected scene (the scenes of main.rs set 40 to 2000).
SamplesPerPixel == 4

\* ------------------------------------------------------------------ state
VARIABLES
    mainPc,          \* position of fn main
    panicked,        \* "" or the message main panicked with
    header,          \* TRUE once "P3 w h 255" has been printed
    samples_per_pixel,
    spawned,         \* value of i in the spawn loop: workers 0..spawned-1 exist
    joined,          \* number of handles already joined
    wrow, wi,        \* image write: rows already written, column i of the current row
    out,             \* the pixel triplets printed so far
    pixel_colors,    \* the shared framebuffer, pixel_colors[x][y]
    lock,            \* holder of the framebuffer mutex, Unlocked if none
    wpc,             \* position of each worker
    k,               \* number of pixels a worker has sampled (x = k / h, y = k % h)
    local_pixel_colors,
    pixels_left,
    last_change,
    m,               \* number of pixels a worker has merged
    acquisitions,    \* how often each worker has called pixel_colors.lock()
    chan,            \* per worker: messages sent and not yet received
    rxAlive,         \* FALSE once the monitor dropped thread_receivers
    monPc,           \* position of the monitor thread
    monR,            \* index of the receiver the monitor polls next
    thread_pixel_counts

renderVars == << mainPc, panicked, header, samples_per_pixel, spawned, joined, wrow, wi, out,
                 pixel_colors, lock, wpc, k, local_pixel_colors, pixels_left,
                 last_change, m, acquisitions, chan, rxAlive, monPc, monR,
                 thread_pixel_counts >>

\* One call of ray_color, as the stack of its nested invocations.
VARIABLES
    rcPc,            \* "idle", "call" (top frame runs), "return" (top frame returned), "done"
    rcStack,         \* the frames of the nested ray_color calls, outermost first
    rcRet,           \* the colour returned by the call that returned last
    rcDepth0,        \* the depth argument of the outermost call
    rcBackground,    \* the background_color argument
    rcHitTests,      \* number of hit_hittables queries made so far
    rcLog            \* what each nested call drew: depth, hit, emitted, scatter

rcVars == << rcPc, rcStack, rcRet, rcDepth0, rcBackground, rcHitTests, rcLog >>

\* A world under construction and the last ray traced into it (main.rs, World).
VARIABLES
    world,           \* [materials, hittables]: the two vectors of struct World
    handles,         \* the MaterialHandles register_material has returned
    traced           \* what the last query found: the record and the table lookup

worldVars == << world, handles, traced >>

\* One intersection query: Hittable::hit on each element, hit_hittables on the list.
VARIABLES
    qPc,             \* "idle", "input", "each" (elements queried), "done"
    qList,           \* the hittables queried
    qRay, qTMin, qTMax,
    qEach,           \* qEach[n]: what qList[n].hit(ray, t_min, t_max) returned
    qRec             \* what hit_hittables(list, ray, t_min, t_max) returned

hitVars == << qPc, qList, qRay, qTMin, qTMax, qEach, qRec >>

\* AABB::surrounding_box folded over a list of boxes, and AABB::hit of a box.
VARIABLES
    boxPc,           \* "idle", "input", "done"
    boxes,           \* the boxes given
    boxRay, boxTMin, boxTMax,
    folded,          \* surrounding_box folded over boxes, left to right
    boxHit           \* what boxes[1].hit(ray, t_min, t_max) returned

boxVars == << boxPc, boxes, boxRay, boxTMin, boxTMax, folded, boxHit >>

\* One call of Hittable::new_bvh_node, as the stack of its nested invocations,
\* and a ray tested against the node it returned.
VARIABLES
    bvhPc,           \* "idle", "call", "return", "built", "done"
    bvhList,         \* the argument `list`, which the calls push nodes onto
    bvhIndices,      \* the argument `indices`
    bvhStack,        \* the frames of the nested calls, outermost first
    bvhRet,          \* the node returned by the call that returned last
    bvhNodes,        \* every node returned so far, with the range it was built for
    bvhRay,          \* the ray tested once the tree is built
    bvhHit,          \* what hit on the root node returned
    bvhScan          \* what hit_hittables over the primitives returned

bvhVars == << bvhPc, bvhList, bvhIndices, bvhStack, bvhRet, bvhNodes, bvhRay, bvhHit, bvhScan >>

\* Vector3::write_color (src/src/math.rs)
VARIABLE
    wc               \* pc: "idle", "call", "printed"; self: the colour write_color is
                     \* called on; samples: the argument samples_per_pixel; out: the
                     \* three numbers printed

colorVars == << wc >>

\* Perlin::perlin_generate_perm and Perlin::permute (src/src/perlin.rs)
VARIABLE
    perm             \* pc: "idle", "call", "loop", "returned"; p: the table; i: the
                     \* iterations of permute's loop still to run (i - 1 is next)

permVars == << perm >>

\* Texture::get_color_value, Image arm (src/src/texture.rs)
VARIABLE
    tex              \* pc: "idle", "call", "read"; w, h: width and height of the image;
                     \* u, v: the arguments; i, j: the column and row computed; read:
                     \* the offsets of the three bytes read

texVars == << tex >>

\* The image size of a render whose progress reports are followed.
VARIABLE
    image            \* width, height

sizeVars == << image >>

vars == << renderVars, rcVars, worldVars, hitVars, boxVars, bvhVars,
           colorVars, permVars, texVars, sizeVars >>

\* What each family of actions leaves alone.
offRender == << rcVars, worldVars, hitVars, boxVars, bvhVars,
    colorVars, permVars, texVars, sizeVars >>
offRc == << renderVars, worldVars, hitVars, boxVars, bvhVars,
    colorVars, permVars, texVars, sizeVars >>
offWorld == << renderVars, rcVars, hitVars, boxVars, bvhVars,
    colorVars, permVars, texVars, sizeVars >>
offHit == << renderVars, rcVars, worldVars, boxVars, bvhVars,
    colorVars, permVars, texVars, sizeVars >>
offBox == << renderVars, rcVars, worldVars, hitVars, bvhVars,
    colorVars, permVars, texVars, sizeVars >>
offBvh == << renderVars, rcVars, worldVars, hitVars, boxVars,
    colorVars, permVars, texVars, sizeVars >>

offColor == << renderVars, rcVars, worldVars, hitVars, boxVars, bvhVars,
    permVars, texVars, sizeVars >>
offPerm == << renderVars, rcVars, worldVars, hitVars, boxVars, bvhVars,
    colorVars, texVars, sizeVars >>
offTex == << renderVars, rcVars, worldVars, hitVars, boxVars, bvhVars,
    colorVars, permVars, sizeVars >>

\* The parts of the model a specification does not exercise stay as they are here.
ColorIdle == wc = [pc |-> "idle", self |-> << >>, samples |-> 0, out |-> << >>]

PermIdle == perm = [pc |-> "idle", p |-> << >>, i |-> 0]

TexIdle ==
    tex = [pc |-> "idle", w |-> 0, h |-> 0, u |-> 0, v |-> 0, i |-> 0, j |-> 0,
           read |-> << >>]

SizeIdle == image = [width |-> 0, height |-> 0]

ValueIdle == ColorIdle /\ PermIdle /\ TexIdle /\ SizeIdle

WorldIdle ==
    /\ world = [materials |-> << >>, hittables |-> << >>]
    /\ handles = {}
    /\ traced = << >>

HitIdle ==
    /\ qPc = "idle"
    /\ qList = << >>
    /\ qRay = << >>
    /\ qTMin = 0
    /\ qTMax = 0
    /\ qEach = << >>
    /\ qRec = << >>

BoxIdle ==
    /\ boxPc = "idle"
    /\ boxes = << >>
    /\ boxRay = << >>
    /\ boxTMin = 0
    /\ boxTMax = 0
    /\ folded = << >>
    /\ boxHit = FALSE

BvhIdle ==
    /\ bvhPc = "idle"
    /\ bvhList = << >>
    /\ bvhIndices = << >>
    /\ bvhStack = << >>
    /\ bvhRet = << >>
    /\ bvhNodes = << >>
    /\ bvhRay = << >>
    /\ bvhHit = << >>
    /\ bvhScan = << >>

Workers == 0 .. NumWorkers - 1
Xs == 0 .. Width - 1
Ys == 0 .. Height - 1
pixels_to_process_count == Width * Height
Unlocked == -1

Black == EmptyBag

\* vec![vec![Color::new(0,0,0); image_height]; image_width]
BlackBuffer == [x \in Xs |-> [y \in Ys |-> Black]]

\* ------------------------------------------------------------- scene table
\* The arms of `match` in main: 0..7 build a scene, anything else panics.
DefinedScenes == 0 .. 7
SceneIndices == 0 .. 8
\* Scenes whose builder calls Texture::load_image (earth_scene, final_scene).
LoadsImage(idx) == idx \in {3, 7}

\* Texture::load_image panics unless the decoder returns an 8-bit image.
LoadPanics(idx, decodeOk) == LoadsImage(idx) /\ ~decodeOk

\* What the panic of the scene expression reports.
PanicMessage(idx) ==
    IF idx \notin DefinedScenes THEN "Unsupported scene selected" ELSE "load_image"

\* The scene expression of main: does evaluating it panic?
ScenePanics(idx, decodeOk) == idx \notin DefinedScenes \/ LoadPanics(idx, decodeOk)

\* -------------------------------------------------------------- the worker
\* The colour ray_color returns for sample s of worker i at pixel (x, y).
Sample(i, x, y, s) == SetToBag({<< i, x, y, s >>})

\* for _s in 0..samples_per_pixel / thread_count { pixel_color += ray_color(..) }
RECURSIVE SampleLoop(_, _, _, _, _, _)
SampleLoop(i, x, y, s, n, pixel_color) ==
    IF s >= n THEN pixel_color
    ELSE SampleLoop(i, x, y, s + 1, n, pixel_color (+) Sample(i, x, y, s))

SamplesPerWorker(spp) == spp \div NumWorkers

\* The x and y of the k-th iteration of `for x in 0..image_width { for y in 0..image_height`.
LoopX(n) == n \div Height
LoopY(n) == n % Height

\* Mutant of WorkerPixels: the grid split into per-worker column slices.
WorkerSlice(i) == {x \in Xs : x % NumWorkers = i} \X Ys

\* The pixels a worker's sampling loop ranges over.
WorkerPixels(i) == Xs \X Ys

\* Number of iterations of worker i's sampling loop.
WorkerPixelCount(i) == Cardinality(WorkerPixels(i))

\* Mutant of AfterPixel: the lock is taken inside the pixel loop.
AfterPixelLockInLoop(i, n) == IF n >= 1 THEN "lock" ELSE "sample"

\* Where the worker goes after the body of the pixel loop.
AfterPixel(i, n) == IF n >= WorkerPixelCount(i) THEN "lock" ELSE "sample"

\* Mutant of ChannelCanAccept: a rendezvous-style bounded channel of capacity 1.
ChannelBounded(q) == Len(q) < 1

\* mpsc::channel() is unbounded: a send never waits for room.
ChannelCanAccept(q) == TRUE

\* Mutex::lock returns once no other thread holds the mutex.
LockFree(l) == l = Unlocked

\* Mutant of MergeAdd: `=` written for `+=`.
MergeOverwrite(shared, private) == private

\* pixels[x][y] += local_pixel_colors[x][y]
MergeAdd(shared, private) == shared (+) private

\* Mutant of ReleaseLock: the guard is leaked and the mutex stays locked.
ReleaseLockLeaked(l, w) == l

\* The mutex after worker w dropped its guard at the end of the closure.
ReleaseLock(l, w) == IF l = w THEN Unlocked ELSE l

\* Mutant of ThreadFinished: the handles are not waited for.
ThreadDetached(pc) == TRUE

\* handle.join() returns once the thread of the handle has ended.
ThreadFinished(pc) == pc = "done"

\* Mutant of RowOrder: the rows are walked without `.rev()`.
RowOrderAscending(n) == n

\* The j of the n-th iteration of `for j in (0..=image_height - 1).rev()`.
RowOrder(n) == Height - 1 - n

\* Mutant of MainOrder: the header is printed before the scene is built.
MainOrderHeaderFirst(pc) ==
    CASE pc = "start" -> "header"
      [] pc = "header" -> "scene"
      [] pc = "scene" -> "spawn"

\* The order of the statements of main up to the spawn loop: the scene is
\* built (and may panic) before the header is printed.
MainOrder(pc) ==
    CASE pc = "start" -> "scene"
      [] pc = "scene" -> "header"
      [] pc = "header" -> "spawn"

InitRender ==
    /\ mainPc = MainOrder("start")
    /\ panicked = ""
    /\ header = FALSE
    /\ samples_per_pixel = 0
    /\ spawned = 0
    /\ joined = 0
    /\ wrow = 0
    /\ wi = 0
    /\ out = << >>
    /\ pixel_colors = BlackBuffer
    /\ lock = Unlocked
    /\ wpc = [w \in Workers |-> "unspawned"]
    /\ k = [w \in Workers |-> 0]
    /\ local_pixel_colors = [w \in Workers |-> BlackBuffer]
    /\ pixels_left = [w \in Workers |-> 0]
    /\ last_change = [w \in Workers |-> 0]
    /\ m = [w \in Workers |-> 0]
    /\ acquisitions = [w \in Workers |-> 0]
    /\ chan = [w \in Workers |-> << >>]
    /\ rxAlive = TRUE
    /\ monPc = "unspawned"
    /\ monR = 0
    /\ thread_pixel_counts = [w \in Workers |-> 0]

mainVars == << mainPc, panicked, header, samples_per_pixel, spawned, joined, wrow, wi, out >>
workerVars == << wpc, k, local_pixel_colors, pixels_left, last_change, m, acquisitions >>
monitorVars == << monPc, monR, thread_pixel_counts >>

\* ---------------------------------------------------------------- fn main
\* let scene = match .. { 0..7 => Scene {..}, _ => panic!(..) }
SelectScene ==
    /\ mainPc = "scene"
    /\ \E idx \in SceneIndices, decodeOk \in BOOLEAN :
          IF ScenePanics(idx, decodeOk)
          THEN /\ mainPc' = "aborted"
               /\ panicked' = PanicMessage(idx)
               /\ UNCHANGED samples_per_pixel
          ELSE /\ mainPc' = MainOrder("scene")
               /\ samples_per_pixel' = SamplesPerPixel
               /\ UNCHANGED panicked
    /\ UNCHANGED << header, spawned, joined, wrow, wi, out, pixel_colors, lock,
                    workerVars, chan, rxAlive, monitorVars >>
    /\ UNCHANGED offRender

\* println!("P3\n{} {}\n255\n", image_width, image_height)
PrintHeader ==
    /\ mainPc = "header"
    /\ header' = TRUE
    /\ mainPc' = MainOrder("header")
    /\ UNCHANGED << panicked, samples_per_pixel, spawned, joined, wrow, wi, out, pixel_colors,
                    lock, workerVars, chan, rxAlive, monitorVars >>
    /\ UNCHANGED offRender

\* One iteration of `for i in 0..thread_count`: channel, thread::spawn.
SpawnWorker ==
    /\ mainPc = "spawn"
    /\ spawned < NumWorkers
    /\ wpc' = [wpc EXCEPT ![spawned] = AfterPixel(spawned, 0)]
    /\ pixels_left' = [pixels_left EXCEPT ![spawned] = pixels_to_process_count]
    /\ last_change' = [last_change EXCEPT ![spawned] = 0]
    /\ spawned' = spawned + 1
    /\ UNCHANGED << panicked, mainPc, header, samples_per_pixel, joined, wrow, wi, out,
                    pixel_colors, lock, k, local_pixel_colors, m, acquisitions, chan,
                    rxAlive, monitorVars >>
    /\ UNCHANGED offRender

\* thread_pixel_counts = vec![pixels_to_process_count; thread_count]; spawn the monitor.
SpawnMonitor ==
    /\ mainPc = "spawn"
    /\ spawned = NumWorkers
    /\ thread_pixel_counts' = [w \in Workers |-> pixels_to_process_count]
    /\ monPc' = "poll"
    /\ monR' = 0
    /\ mainPc' = "join"
    /\ UNCHANGED << panicked, header, samples_per_pixel, spawned, joined, wrow, wi, out,
                    pixel_colors, lock, workerVars, chan, rxAlive >>
    /\ UNCHANGED offRender

\* handle.join().unwrap() for the next handle of thread_handles.
JoinWorker ==
    /\ mainPc = "join"
    /\ joined < NumWorkers
    /\ ThreadFinished(wpc[joined])
    /\ joined' = joined + 1
    /\ IF joined + 1 = NumWorkers
       THEN /\ mainPc' = "write"
            /\ wrow' = 0
            /\ wi' = 0
       ELSE UNCHANGED << mainPc, wrow, wi >>
    /\ UNCHANGED << panicked, header, samples_per_pixel, spawned, out, pixel_colors, lock,
                    workerVars, chan, rxAlive, monitorVars >>
    /\ UNCHANGED offRender

\* One iteration of the write loops: lock, colors[i][j].write_color(spp), unlock.
WritePixel ==
    /\ mainPc = "write"
    /\ LockFree(lock)
    /\ LET j == RowOrder(wrow)
       IN  out' = Append(out, [i |-> wi, j |-> j, color |-> pixel_colors[wi][j],
                               samples |-> samples_per_pixel])
    /\ IF wi + 1 < Width
       THEN /\ wi' = wi + 1
            /\ UNCHANGED << wrow, mainPc >>
       ELSE /\ wi' = 0
            /\ wrow' = wrow + 1
            /\ mainPc' = IF wrow + 1 < Height THEN "write" ELSE "done"
    /\ UNCHANGED << panicked, header, samples_per_pixel, spawned, joined, pixel_colors,
                    lock, workerVars, chan, rxAlive, monitorVars >>
    /\ UNCHANGED offRender

\* ------------------------------------------------------------- the workers
\* The body of the pixel loop up to the test `last_change == 50`.
SamplePixel(w) ==
    /\ wpc[w] = "sample"
    /\ LET x == LoopX(k[w])
           y == LoopY(k[w])
           pixel_color == SampleLoop(w, x, y, 0, SamplesPerWorker(samples_per_pixel), Black)
       IN  local_pixel_colors' =
               [local_pixel_colors EXCEPT ![w][x][y] = pixel_color]
    /\ pixels_left' = [pixels_left EXCEPT ![w] = @ - 1]
    /\ last_change' = [last_change EXCEPT ![w] = @ + 1]
    /\ k' = [k EXCEPT ![w] = @ + 1]
    /\ wpc' = [wpc EXCEPT ![w] = IF last_change[w] + 1 = ReportEvery
                                 THEN "send" ELSE AfterPixel(w, k[w] + 1)]
    /\ UNCHANGED << mainVars, pixel_colors, lock, m, acquisitions, chan, rxAlive,
                    monitorVars >>
    /\ UNCHANGED offRender

\* match tx.send((i, pixels_left)) { Ok(_) => {}, Err(msg) => eprintln!(..) }; last_change = 0
WorkerSend(w) ==
    /\ wpc[w] = "send"
    /\ ChannelCanAccept(chan[w])
    /\ chan' = IF rxAlive
               THEN [chan EXCEPT ![w] = Append(@, << w, pixels_left[w] >>)]
               ELSE chan
    /\ last_change' = [last_change EXCEPT ![w] = 0]
    /\ wpc' = [wpc EXCEPT ![w] = AfterPixel(w, k[w])]
    /\ UNCHANGED << mainVars, pixel_colors, lock, k, local_pixel_colors,
                    pixels_left, m, acquisitions, rxAlive, monitorVars >>
    /\ UNCHANGED offRender

\* let mut pixels = pixel_colors.lock().unwrap();
AcquireLock(w) ==
    /\ wpc[w] = "lock"
    /\ LockFree(lock)
    /\ lock' = w
    /\ wpc' = [wpc EXCEPT ![w] = "merge"]
    /\ m' = [m EXCEPT ![w] = 0]
    /\ acquisitions' = [acquisitions EXCEPT ![w] = @ + 1]
    /\ UNCHANGED << mainVars, pixel_colors, k, local_pixel_colors, pixels_left,
                    last_change, chan, rxAlive, monitorVars >>
    /\ UNCHANGED offRender

\* for x in 0..image_width { for y in 0..image_height { pixels[x][y] += local[x][y] } }
RECURSIVE MergeLoop(_, _, _)
MergeLoop(n, shared, private) ==
    IF n >= pixels_to_process_count THEN shared
    ELSE MergeLoop(n + 1,
                   [shared EXCEPT ![LoopX(n)][LoopY(n)] =
                                      MergeAdd(@, private[LoopX(n)][LoopY(n)])],
                   private)

\* The merge loops, run while the guard is held: no other thread reads or writes
\* the framebuffer in between, so the loops are one step.
MergeAll(w) ==
    /\ wpc[w] = "merge"
    /\ m[w] < pixels_to_process_count
    /\ pixel_colors' = MergeLoop(0, pixel_colors, local_pixel_colors[w])
    /\ m' = [m EXCEPT ![w] = pixels_to_process_count]
    /\ UNCHANGED << mainVars, lock, wpc, k, local_pixel_colors, pixels_left,
                    last_change, acquisitions, chan, rxAlive, monitorVars >>
    /\ UNCHANGED offRender

\* End of the closure: the guard is dropped (unlock) and the thread ends.
WorkerExit(w) ==
    /\ wpc[w] = "merge"
    /\ m[w] = pixels_to_process_count
    /\ lock' = ReleaseLock(lock, w)
    /\ wpc' = [wpc EXCEPT ![w] = "done"]
    /\ UNCHANGED << mainVars, pixel_colors, k, local_pixel_colors, pixels_left,
                    last_change, m, acquisitions, chan, rxAlive, monitorVars >>
    /\ UNCHANGED offRender

\* ------------------------------------------------------------- the monitor
\* The process ends, and with it the monitor, when main returns or panics.
ProcessAlive == mainPc \notin {"done", "aborted"}

\* if let Ok((t_index, count)) = r.try_recv() { thread_pixel_counts[t_index] = count }
MonitorPoll ==
    /\ ProcessAlive
    /\ monPc = "poll"
    /\ monR < NumWorkers
    /\ IF chan[monR] # << >>
       THEN /\ thread_pixel_counts' =
                   [thread_pixel_counts EXCEPT ![Head(chan[monR])[1]] = Head(chan[monR])[2]]
            /\ chan' = [chan EXCEPT ![monR] = Tail(@)]
       ELSE UNCHANGED << thread_pixel_counts, chan >>
    /\ monR' = monR + 1
    /\ monPc' = IF monR + 1 = NumWorkers THEN "check" ELSE "poll"
    /\ UNCHANGED << mainVars, pixel_colors, lock, workerVars, rxAlive >>
    /\ UNCHANGED offRender

\* done = no count is > 0; break if done, else poll again.
MonitorCheck ==
    /\ ProcessAlive
    /\ monPc = "check"
    /\ IF \A w \in Workers : ~(thread_pixel_counts[w] > 0)
       THEN /\ monPc' = "exited"
            /\ rxAlive' = FALSE
            /\ UNCHANGED monR
       ELSE /\ monPc' = "poll"
            /\ monR' = 0
            /\ UNCHANGED rxAlive
    /\ UNCHANGED << mainVars, pixel_colors, lock, workerVars, chan,
                    thread_pixel_counts >>
    /\ UNCHANGED offRender

\* ---------------------------------------------------------- fn ray_color
\* depth of the outermost call ranges over -1..MaxDepth (main passes max_depth = 50).
MaxDepth == 3
\* colours of the integrator are one channel, 0..MaxColor.
MaxColor == 2
Colors == 0 .. MaxColor

\* Color::new(0.0, 0.0, 0.0)
RcBlack == 0

\* world.materials: one material of each variant of enum Material.
materials ==
    << [kind |-> "Lambertian", albedo |-> 2],
       [kind |-> "Metal", albedo |-> 2],
       [kind |-> "Dielectric", albedo |-> 1] >>

\* What hit_hittables can return: 0 for None, else the record's mat_handle.
HitOutcomes == 0 .. Len(materials)

NoScatter == [some |-> FALSE, attenuation |-> 0]

\* Material::scatter. `bounce` is the outcome of the metal's test
\* dot(scattered.direction, rec.normal) > 0 for the random fuzz drawn.
scatter(material, bounce) ==
    CASE material.kind = "Lambertian" -> [some |-> TRUE, attenuation |-> material.albedo]
      [] material.kind = "Metal" ->
            IF bounce THEN [some |-> TRUE, attenuation |-> material.albedo] ELSE NoScatter
      [] material.kind = "Dielectric" -> [some |-> TRUE, attenuation |-> 1]

\* if depth <= 0 { return black }
ReachedLimit(depth) == depth <= 0

\* Mutant of NextDepth: the recursive call is given depth unchanged.
NextDepthSame(depth) == depth

\* the depth argument of the recursive call
NextDepth(depth) == depth - 1

\* Mutant of Combine: the emitted term is dropped on a scatter.
CombineNoEmitted(emitted, attenuation, inner) == attenuation * inner

\* emitted + attenuation * ray_color(&scattered, .., depth - 1, ..)
Combine(emitted, attenuation, inner) == emitted + attenuation * inner

Frame(depth) == [depth |-> depth, emitted |-> 0, attenuation |-> 0]

RcIdle ==
    /\ rcPc = "idle"
    /\ rcStack = << >>
    /\ rcRet = 0
    /\ rcDepth0 = 0
    /\ rcBackground = 0
    /\ rcHitTests = 0
    /\ rcLog = << >>

GeometryIdle == WorldIdle /\ HitIdle /\ BoxIdle /\ BvhIdle /\ ValueIdle

Init == InitRender /\ RcIdle /\ GeometryIdle

\* A call ray_color(ray, background, hittables, depth, materials) is entered.
RcInit ==
    /\ InitRender
    /\ GeometryIdle
    /\ rcDepth0 \in -1 .. MaxDepth
    /\ rcBackground \in Colors
    /\ rcPc = "call"
    /\ rcStack = << Frame(rcDepth0) >>
    /\ rcRet = 0
    /\ rcHitTests = 0
    /\ rcLog = << >>

\* The innermost call runs from its entry to its return or to its recursive call.
\* material.emitted(..) is not among the sources: its value is drawn from Colors.
RcEnter ==
    /\ rcPc = "call"
    /\ LET top == Len(rcStack)
           depth == rcStack[top].depth
       IN  IF ReachedLimit(depth)
           THEN /\ rcRet' = RcBlack
                /\ rcPc' = "return"
                /\ rcLog' = Append(rcLog, [depth |-> depth, tested |-> FALSE, hit |-> 0,
                                           emitted |-> 0, scattered |-> FALSE,
                                           attenuation |-> 0])
                /\ UNCHANGED << rcStack, rcHitTests >>
           ELSE \E hit \in HitOutcomes, emitted \in Colors, bounce \in BOOLEAN :
                  LET sc == IF hit = 0 THEN NoScatter ELSE scatter(materials[hit], bounce)
                  IN  /\ rcHitTests' = rcHitTests + 1
                      /\ rcLog' = Append(rcLog,
                             [depth |-> depth, tested |-> TRUE, hit |-> hit,
                              emitted |-> IF hit = 0 THEN 0 ELSE emitted,
                              scattered |-> sc.some, attenuation |-> sc.attenuation])
                      /\ IF hit = 0
                         THEN /\ rcRet' = rcBackground
                              /\ rcPc' = "return"
                              /\ UNCHANGED rcStack
                         ELSE IF sc.some
                         THEN /\ rcStack' = Append(
                                     [rcStack EXCEPT ![top] =
                                         [depth |-> depth, emitted |-> emitted,
                                          attenuation |-> sc.attenuation]],
                                     Frame(NextDepth(depth)))
                              /\ rcPc' = "call"
                              /\ UNCHANGED rcRet
                         ELSE /\ rcRet' = emitted
                              /\ rcPc' = "return"
                              /\ UNCHANGED rcStack
    /\ UNCHANGED << rcDepth0, rcBackground >>
    /\ UNCHANGED offRc

\* The innermost call has returned rcRet: its caller combines and returns in turn.
RcReturn ==
    /\ rcPc = "return"
    /\ LET top == Len(rcStack)
       IN  /\ rcStack' = SubSeq(rcStack, 1, top - 1)
           /\ IF top = 1
              THEN /\ rcPc' = "done"
                   /\ UNCHANGED rcRet
              ELSE /\ rcRet' = Combine(rcStack[top - 1].emitted,
                                       rcStack[top - 1].attenuation, rcRet)
                   /\ UNCHANGED rcPc
    /\ UNCHANGED << rcDepth0, rcBackground, rcHitTests, rcLog >>
    /\ UNCHANGED offRc

RcNext ==
    \/ RcEnter
    \/ RcReturn

\* A function that was called keeps running: weak fairness of its steps.
SpecRayColor == RcInit /\ [][RcNext]_vars /\ WF_vars(RcNext)

Next ==
    \/ SelectScene
    \/ PrintHeader
    \/ SpawnWorker
    \/ SpawnMonitor
    \/ JoinWorker
    \/ WritePixel
    \/ \E w \in Workers : SamplePixel(w)
    \/ \E w \in Workers : WorkerSend(w)
    \/ \E w \in Workers : AcquireLock(w)
    \/ \E w \in Workers : MergeAll(w)
    \/ \E w \in Workers : WorkerExit(w)
    \/ MonitorPoll
    \/ MonitorCheck

Spec == Init /\ [][Next]_vars

\* The steps of the main thread, of one worker, of the monitor.
MainNext ==
    SelectScene \/ PrintHeader \/ SpawnWorker \/ SpawnMonitor \/ JoinWorker \/ WritePixel

WorkerNext(w) ==
    SamplePixel(w) \/ WorkerSend(w) \/ AcquireLock(w) \/ MergeAll(w) \/ WorkerExit(w)

MonitorNext == MonitorPoll \/ MonitorCheck

\* The operating system schedules the main thread and every worker again and
\* again; nothing is assumed of the monitor, which may run or starve.
FairSpec ==
    /\ Init
    /\ [][Next]_vars
    /\ WF_vars(MainNext)
    /\ \A w \in Workers : WF_vars(WorkerNext(w))

\* ------------------------------------------------------------------ claims
AllPixels == Xs \X Ys

AllJoined == joined = NumWorkers

FinishedSampling(w) == wpc[w] \in {"lock", "merge", "done"}

\* The pixels worker w has sampled so far.
SampledPixels(w) == { << LoopX(n), LoopY(n) >> : n \in 0 .. k[w] - 1 }

\* The sum over workers 0..n-1 of their private-buffer values at (x, y).
RECURSIVE SumLocal(_, _, _)
SumLocal(n, x, y) ==
    IF n = 0 THEN Black ELSE SumLocal(n - 1, x, y) (+) local_pixel_colors[n - 1][x][y]

\* The samples worker w takes of pixel (x, y), each once.
ExpectedPixel(w, x, y) ==
    SetToBag({ << w, x, y, s >> : s \in 0 .. SamplesPerWorker(samples_per_pixel) - 1 })

\* The samples all workers take of pixel (x, y), each once.
ExpectedSum(x, y) ==
    SetToBag({ << w, x, y, s >> :
                 w \in Workers, s \in 0 .. SamplesPerWorker(samples_per_pixel) - 1 })

\* The workers that have a sample in the colour c.
Contributors(c) == { e[1] : e \in BagToSet(c) }

\* C1: once all workers are joined, every framebuffer pixel is exactly the sum of
\* the workers' private values for it (nothing lost, overwritten or added twice),
\* and no two workers are ever inside the merge loop together.
C1_MergeExact ==
    /\ \A w1, w2 \in Workers : (wpc[w1] = "merge" /\ wpc[w2] = "merge") => w1 = w2
    /\ AllJoined =>
          \A x \in Xs, y \in Ys : pixel_colors[x][y] = SumLocal(NumWorkers, x, y)

C1_Witness ==
    /\ AllJoined
    /\ \A x \in Xs, y \in Ys : Contributors(pixel_colors[x][y]) = Workers

\* C2: a worker calls lock() exactly once, after its pixel loop has ended; it does
\* not hold the mutex while sampling, and nothing of it is in the framebuffer
\* before that acquisition.
C2_LockOnce ==
    \A w \in Workers :
        /\ acquisitions[w] <= 1
        /\ wpc[w] = "done" => acquisitions[w] = 1
        /\ acquisitions[w] >= 1 => k[w] = pixels_to_process_count
        /\ lock = w => wpc[w] = "merge"
        /\ wpc[w] \in {"unspawned", "sample", "send", "lock"} =>
              /\ lock # w
              /\ acquisitions[w] = 0
              /\ m[w] = 0
              /\ \A x \in Xs, y \in Ys : w \notin Contributors(pixel_colors[x][y])

C2_Witness ==
    \E w1, w2 \in Workers :
        /\ wpc[w1] = "done" /\ acquisitions[w1] = 1
        /\ wpc[w2] = "sample" /\ k[w2] > 0
        /\ samples_per_pixel >= NumWorkers

C4_WriteAfterJoin ==
    (mainPc \in {"write", "done"} \/ out # << >>) =>
        /\ AllJoined
        /\ lock = Unlocked
        /\ \A w \in Workers : wpc[w] = "done" /\ m[w] = pixels_to_process_count

C4_Witness ==
    /\ mainPc = "write"
    /\ Len(out) >= 1

\* C5: triplets follow the header; the n-th triplet written is the pixel of column (n-1) mod width in row
\* height-1 - (n-1) div width; when main is done, width*height triplets have been
\* written and every pixel exactly once.
C5_WriteOrder ==
    /\ out # << >> => header
    /\ \A n \in 1 .. Len(out) :
          /\ out[n].i = (n - 1) % Width
          /\ out[n].j = Height - 1 - ((n - 1) \div Width)
    /\ Len(out) <= Width * Height
    /\ mainPc = "done" =>
          /\ Len(out) = Width * Height
          /\ \A p \in AllPixels :
                Cardinality({ n \in 1 .. Len(out) : << out[n].i, out[n].j >> = p }) = 1

C5_Witness ==
    /\ mainPc = "done"
    /\ Len(out) = Width * Height
    /\ out[1].j = Height - 1
    /\ out[Len(out)].j = 0

\* C6: a worker at its send can always take the step (it never waits), its private
\* buffer holds exactly the pixels sampled so far whatever became of the
\* messages, and once all are joined the framebuffer holds every worker's samples
\* of every pixel, whatever the monitor has or has not received.
C6_ProgressAdvisory ==
    /\ \A w \in Workers : wpc[w] = "send" => ENABLED WorkerSend(w)
    /\ \A w \in Workers, n \in 0 .. pixels_to_process_count - 1 :
          local_pixel_colors[w][LoopX(n)][LoopY(n)] =
              IF n < k[w] THEN ExpectedPixel(w, LoopX(n), LoopY(n)) ELSE Black
    /\ AllJoined => \A x \in Xs, y \in Ys : pixel_colors[x][y] = ExpectedSum(x, y)

C6_Witness ==
    /\ AllJoined
    /\ samples_per_pixel >= NumWorkers
    /\ monPc # "exited"
    /\ \E w \in Workers : Len(chan[w]) >= 2

\* A render is running: the scene is built and main has not returned.
Rendering == mainPc \in {"header", "spawn", "join", "write"}

RenderComplete ==
    /\ mainPc = "done"
    /\ Len(out) = Width * Height
    /\ \A w \in Workers : wpc[w] = "done" /\ m[w] = pixels_to_process_count

\* C7: under fair scheduling a render that has started ends with every worker
\* merged and terminated and every pixel written, and while it runs the main
\* thread or some worker can always take a step.
C7_RunsToCompletion ==
    /\ [](Rendering => ENABLED (MainNext \/ \E w \in Workers : WorkerNext(w)))
    /\ (mainPc = "header") ~> RenderComplete

C7_Witness ==
    /\ RenderComplete
    /\ monPc = "poll"

\* C8: when main has panicked on the scene, the header and every pixel triplet are
\* unwritten and no worker and no monitor has been spawned.
C8_AbortBeforeOutput ==
    mainPc = "aborted" =>
        /\ panicked # ""
        /\ ~header
        /\ out = << >>
        /\ spawned = 0
        /\ \A w \in Workers : wpc[w] = "unspawned"
        /\ monPc = "unspawned"

C8_Witness ==
    /\ mainPc = "aborted"
    /\ panicked = "load_image"

Max(a, b) == IF a >= b THEN a ELSE b

\* The frames of the nested calls carry depths d, d-1, d-2, ...; there are at most
\* d recursive calls and d hit queries; a call with depth <= 0 made no hit query
\* and returned black.
RcDepthBound ==
    /\ \A n \in 1 .. Len(rcStack) - 1 : rcStack[n + 1].depth = rcStack[n].depth - 1
    /\ \A n \in 1 .. Len(rcLog) : rcLog[n].depth = rcDepth0 - (n - 1)
    /\ Len(rcStack) - 1 <= Max(rcDepth0, 0)
    /\ Len(rcLog) - 1 <= Max(rcDepth0, 0)
    /\ rcHitTests <= Max(rcDepth0, 0)
    /\ \A n \in 1 .. Len(rcLog) : rcLog[n].depth <= 0 => ~rcLog[n].tested
    /\ (rcPc \in {"return", "done"} /\ rcLog[Len(rcLog)].depth <= 0
           /\ Len(rcStack) = Len(rcLog)) => rcRet = RcBlack
    /\ (rcPc = "done" /\ rcDepth0 <= 0) => (rcRet = RcBlack /\ rcHitTests = 0)

\* C9: ray_color with depth <= 0 returns black without a hit query, every
\* recursive call gets depth - 1, a call with depth d nests at most d recursive
\* calls, and the call always returns.
C9_DepthTerminates ==
    /\ []RcDepthBound
    /\ <>(rcPc = "done")

C9_Witness ==
    /\ rcPc = "done"
    /\ rcDepth0 = MaxDepth
    /\ Len(rcLog) = MaxDepth + 1
    /\ rcHitTests = MaxDepth

\* The colour the claim gives for the n-th nested call, from what the calls drew.
RECURSIVE RayColorOf(_, _)
RayColorOf(log, n) ==
    IF log[n].depth <= 0 THEN RcBlack
    ELSE IF log[n].hit = 0 THEN rcBackground
    ELSE IF ~log[n].scattered THEN log[n].emitted
    ELSE log[n].emitted + log[n].attenuation * RayColorOf(log, n + 1)

\* C10: for depth > 0 a call returns the background on a miss, emitted alone on a
\* hit whose material does not scatter, and emitted + attenuation * (the colour
\* of the call on the scattered ray with depth - 1) when it scatters.
C10_RayColorValue ==
    /\ rcPc = "return" => rcRet = RayColorOf(rcLog, Len(rcStack))
    /\ rcPc = "done" => rcRet = RayColorOf(rcLog, 1)

C10_Witness ==
    /\ rcPc = "done"
    /\ Len(rcLog) = 3
    /\ rcLog[1].scattered /\ rcLog[1].emitted = 1 /\ rcLog[1].attenuation = 2
    /\ rcLog[2].scattered /\ rcLog[2].attenuation = 1
    /\ rcLog[3].hit = 0 /\ rcLog[3].depth > 0
    /\ rcBackground = 2
    /\ rcRet = 1 + 2 * (rcLog[2].emitted + 2)

\* =================================================================== geometry
\* The f64 values of the geometry code.  A number is an integer (every input
\* is chosen so that the arithmetic on it is exact) or one of the three IEEE
\* values that a division by zero produces and that comparisons treat
\* specially.  The sign of zero is not kept.
INFINITY == 1000
NEG_INFINITY == -1000
NAN == 9999

IsNaN(a) == a = NAN
IsInf(a) == a = INFINITY \/ a = NEG_INFINITY
Sign(a) == IF a > 0 THEN 1 ELSE IF a < 0 THEN -1 ELSE 0
Abs(a) == IF a < 0 THEN -a ELSE a
SignedInf(s) == IF s > 0 THEN INFINITY ELSE NEG_INFINITY

\* a < b, a <= b on f64: false as soon as one side is NaN.
flt(a, b) == ~IsNaN(a) /\ ~IsNaN(b) /\ a < b
fle(a, b) == ~IsNaN(a) /\ ~IsNaN(b) /\ a <= b

fneg(a) == IF IsNaN(a) THEN NAN ELSE -a

fadd(a, b) ==
    IF IsNaN(a) \/ IsNaN(b) THEN NAN
    ELSE IF IsInf(a) /\ IsInf(b) THEN (IF a = b THEN a ELSE NAN)
    ELSE IF IsInf(a) THEN a
    ELSE IF IsInf(b) THEN b
    ELSE a + b

fsub(a, b) == fadd(a, fneg(b))

fmul(a, b) ==
    IF IsNaN(a) \/ IsNaN(b) THEN NAN
    ELSE IF IsInf(a) \/ IsInf(b)
         THEN (IF a = 0 \/ b = 0 THEN NAN ELSE SignedInf(Sign(a) * Sign(b)))
    ELSE a * b

\* a / b: x / 0 is an infinity, 0 / 0 is NaN; a finite quotient is exact.
fdiv(a, b) ==
    IF IsNaN(a) \/ IsNaN(b) THEN NAN
    ELSE IF IsInf(a) THEN (IF IsInf(b) THEN NAN
                           ELSE SignedInf(Sign(a) * (IF b < 0 THEN -1 ELSE 1)))
    ELSE IF IsInf(b) THEN 0
    ELSE IF b = 0 THEN (IF a = 0 THEN NAN ELSE SignedInf(Sign(a)))
    ELSE Sign(a) * Sign(b) * (Abs(a) \div Abs(b))

Divides(b, a) == b # 0 /\ Abs(a) % Abs(b) = 0

\* f64::min and f64::max: a NaN operand is ignored.
f64_min(a, b) == IF IsNaN(a) THEN b ELSE IF IsNaN(b) THEN a ELSE IF a < b THEN a ELSE b
f64_max(a, b) == IF IsNaN(a) THEN b ELSE IF IsNaN(b) THEN a ELSE IF a > b THEN a ELSE b

\* f64::sqrt on the squares 0, 1, 4, 9, ...
IsSquare(n) == n >= 0 /\ \E r \in 0 .. n : r * r = n
f64_sqrt(n) == CHOOSE r \in 0 .. n : r * r = n

\* Vector3 / Point3 / Color: << x, y, z >>.
Vector3_new(x, y, z) == << x, y, z >>
vadd(u, v) == << fadd(u[1], v[1]), fadd(u[2], v[2]), fadd(u[3], v[3]) >>
vsub(u, v) == << fsub(u[1], v[1]), fsub(u[2], v[2]), fsub(u[3], v[3]) >>
vneg(v) == << fneg(v[1]), fneg(v[2]), fneg(v[3]) >>
vscale(t, v) == << fmul(t, v[1]), fmul(t, v[2]), fmul(t, v[3]) >>
vdiv(v, t) == << fdiv(v[1], t), fdiv(v[2], t), fdiv(v[3], t) >>
dot(u, v) == fadd(fadd(fmul(u[1], v[1]), fmul(u[2], v[2])), fmul(u[3], v[3]))
length_squared(v) == dot(v, v)

\* Ray { origin, direction, time }
Ray_with_time(origin, direction, time) ==
    [origin |-> origin, direction |-> direction, time |-> time]

\* Ray::at
at(r, t) == vadd(r.origin, vscale(t, r.direction))

\* ------------------------------------------------------------ hittable.rs
\* Option<HitRecord>: None is the default record with some = FALSE.  The
\* texture coordinates u, v of the record are left out: no geometry depends
\* on them.
None ==
    [some |-> FALSE, point |-> << 0, 0, 0 >>, normal |-> << 0, 0, 0 >>, t |-> 0,
     front_face |-> FALSE, mat_handle |-> 0]

\* HitRecord::new(): every field at its Default, mat_handle = MaterialHandle(0).
HitRecord_new == [None EXCEPT !.some = TRUE]

\* HitRecord::set_face_normal
set_face_normal(rec, r, outward_normal) ==
    LET front_face == flt(dot(r.direction, outward_normal), 0)
    IN  [rec EXCEPT !.front_face = front_face,
                    !.normal = IF front_face THEN outward_normal ELSE vneg(outward_normal)]

\* the range test of the sphere's root and of the rectangles' t
OutOfRange(t, t_min, t_max) == flt(t, t_min) \/ flt(t_max, t)

\* Hittable::sphere_hit
sphere_hit(center, radius, r, t_min, t_max, mat_handle) ==
    LET oc == vsub(r.origin, center)
        a == length_squared(r.direction)
        half_b == dot(oc, r.direction)
        c == fsub(length_squared(oc), fmul(radius, radius))
        discriminant == fsub(fmul(half_b, half_b), fmul(a, c))
    IN  IF flt(discriminant, 0) THEN None
        ELSE LET sqrtd == f64_sqrt(discriminant)
                 root1 == fdiv(fsub(fneg(half_b), sqrtd), a)
                 root2 == fdiv(fadd(fneg(half_b), sqrtd), a)
                 Found(root) ==
                     LET point == at(r, root)
                         outward_normal == vdiv(vsub(point, center), radius)
                     IN  set_face_normal(
                             [HitRecord_new EXCEPT !.mat_handle = mat_handle,
                                                   !.t = root, !.point = point],
                             r, outward_normal)
             IN  IF ~OutOfRange(root1, t_min, t_max) THEN Found(root1)
                 ELSE IF ~OutOfRange(root2, t_min, t_max) THEN Found(root2)
                 ELSE None

\* The three rectangle hits share their shape: `axis` is the coordinate the
\* rectangle is constant in (k, written k0), i and j the two it spans.
rect_hit(axis, i, j, i0, i1, j0, j1, k0, r, t_min, t_max, mat_handle) ==
    LET t == fdiv(fsub(k0, r.origin[axis]), r.direction[axis])
        p == fadd(r.origin[i], fmul(t, r.direction[i]))
        q == fadd(r.origin[j], fmul(t, r.direction[j]))
        outward_normal == [c \in 1 .. 3 |-> IF c = axis THEN 1 ELSE 0]
    IN  IF OutOfRange(t, t_min, t_max) THEN None
        ELSE IF flt(p, i0) \/ flt(i1, p) \/ flt(q, j0) \/ flt(j1, q) THEN None
        ELSE [set_face_normal([HitRecord_new EXCEPT !.t = t], r, outward_normal)
                 EXCEPT !.mat_handle = mat_handle, !.point = at(r, t)]

\* Hittable::xy_rect_hit, xz_rect_hit, yz_rect_hit
xy_rect_hit(x0, x1, y0, y1, k0, r, t_min, t_max, mat_handle) ==
    rect_hit(3, 1, 2, x0, x1, y0, y1, k0, r, t_min, t_max, mat_handle)
xz_rect_hit(x0, x1, z0, z1, k0, r, t_min, t_max, mat_handle) ==
    rect_hit(2, 1, 3, x0, x1, z0, z1, k0, r, t_min, t_max, mat_handle)
yz_rect_hit(y0, y1, z0, z1, k0, r, t_min, t_max, mat_handle) ==
    rect_hit(1, 2, 3, y0, y1, z0, z1, k0, r, t_min, t_max, mat_handle)

\* Hittable::get_center_at_time
get_center_at_time(center_0, center_1, time_0, time_1, time) ==
    vadd(center_0, vscale(fdiv(fsub(time, time_0), fsub(time_1, time_0)),
                          vsub(center_1, center_0)))

\* The ray handed to the wrapped hittable, and the record handed back.
translate_ray(offset, r) == Ray_with_time(vsub(r.origin, offset), r.direction, r.time)

translate_record(offset, moved_ray, rec) ==
    set_face_normal([rec EXCEPT !.point = vadd(rec.point, offset)], moved_ray, rec.normal)

rotate_ray(sin_theta, cos_theta, r) ==
    LET o == r.origin
        d == r.direction
    IN  Ray_with_time(
            << fsub(fmul(cos_theta, o[1]), fmul(sin_theta, o[3])), o[2],
               fadd(fmul(sin_theta, o[1]), fmul(cos_theta, o[3])) >>,
            << fsub(fmul(cos_theta, d[1]), fmul(sin_theta, d[3])), d[2],
               fadd(fmul(sin_theta, d[1]), fmul(cos_theta, d[3])) >>,
            r.time)

rotate_back(sin_theta, cos_theta, v) ==
    << fadd(fmul(cos_theta, v[1]), fmul(sin_theta, v[3])), v[2],
       fadd(fmul(fneg(sin_theta), v[1]), fmul(cos_theta, v[3])) >>

rotate_record(sin_theta, cos_theta, rotated_ray, rec) ==
    set_face_normal([rec EXCEPT !.point = rotate_back(sin_theta, cos_theta, rec.point)],
                    rotated_ray, rotate_back(sin_theta, cos_theta, rec.normal))

RECURSIVE hit(_, _, _, _), hit_from(_, _, _, _, _, _)

\* hit_hittables from element n on, with closest_so_far and rec as they stand.
hit_from(hittables, n, r, t_min, closest_so_far, rec) ==
    IF n > Len(hittables) THEN rec
    ELSE LET record == hit(hittables[n], r, t_min, closest_so_far)
         IN  IF record.some
             THEN hit_from(hittables, n + 1, r, t_min, record.t, record)
             ELSE hit_from(hittables, n + 1, r, t_min, closest_so_far, rec)

\* hit_hittables
hit_hittables(hittables, r, t_min, t_max) == hit_from(hittables, 1, r, t_min, t_max, None)

\* Hittable::hit
hit(self, r, t_min, t_max) ==
    CASE self.kind = "Sphere" ->
            sphere_hit(self.center, self.radius, r, t_min, t_max, self.mat_handle)
      [] self.kind = "MovingSphere" ->
            sphere_hit(get_center_at_time(self.center_0, self.center_1, self.time_0,
                                          self.time_1, r.time),
                       self.radius, r, t_min, t_max, self.mat_handle)
      [] self.kind = "BvhNode" -> None
      [] self.kind = "XYRect" ->
            xy_rect_hit(self.x0, self.x1, self.y0, self.y1, self.k, r, t_min, t_max,
                        self.mat_handle)
      [] self.kind = "XZRect" ->
            xz_rect_hit(self.x0, self.x1, self.z0, self.z1, self.k, r, t_min, t_max,
                        self.mat_handle)
      [] self.kind = "YZRect" ->
            yz_rect_hit(self.y0, self.y1, self.z0, self.z1, self.k, r, t_min, t_max,
                        self.mat_handle)
      [] self.kind = "Box" -> hit_hittables(self.sides, r, t_min, t_max)
      [] self.kind = "Translate" ->
            LET moved_ray == translate_ray(self.offset, r)
                rec == hit(self.ptr, moved_ray, t_min, t_max)
            IN  IF rec.some THEN translate_record(self.offset, moved_ray, rec) ELSE None
      [] self.kind = "RotateY" ->
            LET rotated_ray == rotate_ray(self.sin_theta, self.cos_theta, r)
                rec == hit(self.ptr, rotated_ray, t_min, t_max)
            IN  IF rec.some
                THEN rotate_record(self.sin_theta, self.cos_theta, rotated_ray, rec)
                ELSE None

\* ---------------------------------------------------------------- aabb.rs
\* AABB::new
AABB_new(a, b) == [minimum |-> a, maximum |-> b]

\* Mutant of surrounding_box: the upper corner is taken from box0 alone.
surrounding_box_lopsided(box0, box1) ==
    AABB_new(<< f64_min(box0.minimum[1], box1.minimum[1]),
                f64_min(box0.minimum[2], box1.minimum[2]),
                f64_min(box0.minimum[3], box1.minimum[3]) >>,
             box0.maximum)

\* AABB::surrounding_box
surrounding_box(box0, box1) ==
    LET small == << f64_min(box0.minimum[1], box1.minimum[1]),
                    f64_min(box0.minimum[2], box1.minimum[2]),
                    f64_min(box0.minimum[3], box1.minimum[3]) >>
        big == << f64_max(box0.maximum[1], box1.maximum[1]),
                  f64_max(box0.maximum[2], box1.maximum[2]),
                  f64_max(box0.maximum[3], box1.maximum[3]) >>
    IN  AABB_new(small, big)

\* Option<AABB>
ZeroBox == AABB_new(<< 0, 0, 0 >>, << 0, 0, 0 >>)
NoBox == [some |-> FALSE, box |-> ZeroBox]
SomeBox(b) == [some |-> TRUE, box |-> b]

\* Hittable::sphere_bounding_box
sphere_bounding_box(center, radius) ==
    SomeBox(AABB_new(vsub(center, << radius, radius, radius >>),
                     vadd(center, << radius, radius, radius >>)))

\* Hittable::moving_sphere_bounding_box
moving_sphere_bounding_box(center_0, center_1, radius, time_0, time_1) ==
    LET c0 == get_center_at_time(center_0, center_1, time_0, time_1, time_0)
        c1 == get_center_at_time(center_0, center_1, time_0, time_1, time_1)
        box0 == AABB_new(vsub(c0, << radius, radius, radius >>),
                         vadd(c0, << radius, radius, radius >>))
        box1 == AABB_new(vsub(c1, << radius, radius, radius >>),
                         vadd(c1, << radius, radius, radius >>))
    IN  SomeBox(surrounding_box(box0, box1))

\* Hittable::bounding_box.  The arms of the three rectangles, whose boxes are
\* padded by 0.0001 along their thin axis, are not among the cases: no
\* rectangle is wrapped or put into a tree here other than as a side of a Box.
RECURSIVE bounding_box(_, _, _)
bounding_box(self, time_0, time_1) ==
    CASE self.kind = "Sphere" -> sphere_bounding_box(self.center, self.radius)
      [] self.kind = "MovingSphere" ->
            moving_sphere_bounding_box(self.center_0, self.center_1, self.radius,
                                       self.time_0, self.time_1)
      [] self.kind = "BvhNode" -> SomeBox(self.aabb_box)
      [] self.kind = "Box" -> SomeBox(AABB_new(self.min, self.max))
      [] self.kind = "Translate" ->
            LET aabb == bounding_box(self.ptr, time_0, time_1)
            IN  IF aabb.some
                THEN SomeBox(AABB_new(vadd(aabb.box.minimum, self.offset),
                                      vadd(aabb.box.maximum, self.offset)))
                ELSE NoBox
      [] self.kind = "RotateY" -> IF self.has_box THEN SomeBox(self.bbox) ELSE NoBox

\* ------------------------------------------------- constructors of Hittable
Sphere(mat_handle, center, radius) ==
    [kind |-> "Sphere", mat_handle |-> mat_handle, center |-> center, radius |-> radius]

MovingSphere(mat_handle, center_0, center_1, time_0, time_1, radius) ==
    [kind |-> "MovingSphere", mat_handle |-> mat_handle, center_0 |-> center_0,
     center_1 |-> center_1, time_0 |-> time_0, time_1 |-> time_1, radius |-> radius]

XYRect(mat_handle, x0, x1, y0, y1, k0) ==
    [kind |-> "XYRect", mat_handle |-> mat_handle, x0 |-> x0, x1 |-> x1,
     y0 |-> y0, y1 |-> y1, k |-> k0]

XZRect(mat_handle, x0, x1, z0, z1, k0) ==
    [kind |-> "XZRect", mat_handle |-> mat_handle, x0 |-> x0, x1 |-> x1,
     z0 |-> z0, z1 |-> z1, k |-> k0]

YZRect(mat_handle, y0, y1, z0, z1, k0) ==
    [kind |-> "YZRect", mat_handle |-> mat_handle, y0 |-> y0, y1 |-> y1,
     z0 |-> z0, z1 |-> z1, k |-> k0]

Translate(offset, ptr) == [kind |-> "Translate", offset |-> offset, ptr |-> ptr]

\* Hittable::new_box
new_box(min, max, mat_handle) ==
    [kind |-> "Box", mat_handle |-> mat_handle, min |-> min, max |-> max,
     sides |-> << XYRect(mat_handle, min[1], max[1], min[2], max[2], max[3]),
                  XYRect(mat_handle, min[1], max[1], min[2], max[2], min[3]),
                  XZRect(mat_handle, min[1], max[1], min[3], max[3], max[2]),
                  XZRect(mat_handle, min[1], max[1], min[3], max[3], min[2]),
                  YZRect(mat_handle, min[2], max[2], min[3], max[3], max[1]),
                  YZRect(mat_handle, min[2], max[2], min[3], max[3], min[1]) >>]

\* f64::sin and f64::cos of degrees_to_radians(angle), for the quarter turns.
\* (The f64 values at 90 and 180 degrees are off the exact ones by about 1e-16.)
sin_degrees(angle) == CASE angle = 0 -> 0 [] angle = 90 -> 1 [] angle = 180 -> 0
cos_degrees(angle) == CASE angle = 0 -> 1 [] angle = 90 -> 0 [] angle = 180 -> -1

\* The eight corners of a box in the order of the loops over i, j, k.
BoxCornerSeq(aabb) ==
    [n \in 1 .. 8 |->
        LET i == (n - 1) \div 4
            j == ((n - 1) \div 2) % 2
            l == (n - 1) % 2
        IN  << i * aabb.maximum[1] + (1 - i) * aabb.minimum[1],
               j * aabb.maximum[2] + (1 - j) * aabb.minimum[2],
               l * aabb.maximum[3] + (1 - l) * aabb.minimum[3] >>]

\* min[c] and max[c] after the first n corners have been tested.
RECURSIVE RotatedExtent(_, _, _, _)
RotatedExtent(sin_theta, cos_theta, corners, n) ==
    IF n = 0
    THEN AABB_new(<< INFINITY, INFINITY, INFINITY >>,
                  << NEG_INFINITY, NEG_INFINITY, NEG_INFINITY >>)
    ELSE LET sofar == RotatedExtent(sin_theta, cos_theta, corners, n - 1)
             tester == rotate_back(sin_theta, cos_theta, corners[n])
         IN  AABB_new([c \in 1 .. 3 |-> f64_min(sofar.minimum[c], tester[c])],
                      [c \in 1 .. 3 |-> f64_max(sofar.maximum[c], tester[c])])

\* Hittable::new_rotate_y
new_rotate_y(angle, hittable) ==
    LET sin_theta == sin_degrees(angle)
        cos_theta == cos_degrees(angle)
        found == bounding_box(hittable, 0, 1)
        aabb == IF found.some THEN found.box ELSE ZeroBox
    IN  [kind |-> "RotateY", sin_theta |-> sin_theta, cos_theta |-> cos_theta,
         has_box |-> found.some,
         bbox |-> RotatedExtent(sin_theta, cos_theta, BoxCornerSeq(aabb), 8),
         ptr |-> hittable]

\* ------------------------------------------------------- main.rs: World
\* a world holds at most MaxMaterials materials and MaxHittables hittables
MaxMaterials == 2
MaxHittables == 2

\* The material a scene registers next: one of each variant in turn.
MaterialChoices(table) == { materials[(Len(table) % Len(materials)) + 1] }

\* Mutant of HandleFor: the handle is the 0-based index of the new entry.
HandleForZeroBased(table) == Len(table) - 1

\* MaterialHandle(self.materials.len()), taken after the push
HandleFor(table) == Len(table)

\* The hittables a scene builder makes from a material handle it holds.
SceneHittables ==
    [mat_handle \in 0 .. MaxMaterials |->
        { Sphere(mat_handle, << 0, 0, 0 >>, 1),
          Translate(<< 2, 0, 0 >>,
                    new_rotate_y(180, new_box(<< -1, -1, 1 >>, << 1, 1, 2 >>, mat_handle))) }]

\* The rays traced into the world.
SceneRays ==
    { Ray_with_time(<< 0, 0, -3 >>, << 0, 0, 1 >>, 0),
      Ray_with_time(<< 2, 0, 3 >>, << 0, 0, -1 >>, 0),
      Ray_with_time(<< 0, 3, 0 >>, << 0, 0, 1 >>, 0) }

\* hit_hittables(&hittables, ray, 0.001, INFINITY) of ray_color; the lower
\* bound is written 0.
SceneHit(hittables, r) == hit_hittables(hittables, r, 0, INFINITY)

\* World::register_material
RegisterMaterial ==
    /\ Len(world.materials) < MaxMaterials
    /\ \E material \in MaterialChoices(world.materials) :
          LET table == Append(world.materials, material)
          IN  /\ world' = [world EXCEPT !.materials = table]
              /\ handles' = handles \cup { HandleFor(table) }
    /\ UNCHANGED traced
    /\ UNCHANGED offWorld

\* world.hittables.push(..) with a handle register_material returned
PushHittable ==
    /\ Len(world.hittables) < MaxHittables
    /\ \E mat_handle \in handles : \E hittable \in SceneHittables[mat_handle] :
          world' = [world EXCEPT !.hittables = Append(@, hittable)]
    /\ UNCHANGED << handles, traced >>
    /\ UNCHANGED offWorld

\* ray_color's hit test and its lookup materials[rec.mat_handle.0 - 1]: the
\* subtraction of usize and the indexing panic when they leave their range.
TraceRay ==
    /\ \E r \in SceneRays :
          LET rec == SceneHit(world.hittables, r)
              index == rec.mat_handle - 1
          IN  traced' = [ray |-> r, rec |-> rec, table_len |-> Len(world.materials),
                         lookup |-> IF ~rec.some THEN "none"
                                    ELSE IF index < 0 \/ index >= Len(world.materials)
                                    THEN "panic"
                                    ELSE "found"]
    /\ UNCHANGED << world, handles >>
    /\ UNCHANGED offWorld

NextWorld ==
    \/ RegisterMaterial
    \/ PushHittable
    \/ TraceRay

InitWorld == InitRender /\ RcIdle /\ GeometryIdle

SpecWorld == InitWorld /\ [][NextWorld]_vars

\* C11: in a world whose hittables carry only handles that register_material
\* returned, every record hit_hittables returns carries a handle h with
\* 1 <= h <= materials.len(), the lookup materials[h - 1] never panics, and the
\* handles returned earlier stay in range as the table grows.
C11_HandlesValid ==
    /\ \A h \in handles : 1 <= h /\ h <= Len(world.materials)
    /\ \A n \in 1 .. Len(world.hittables) :
          LET h == world.hittables[n]
          IN  (IF h.kind = "Translate" THEN h.ptr.ptr.mat_handle ELSE h.mat_handle)
                 \in handles
    /\ traced # << >> =>
          /\ traced.lookup # "panic"
          /\ traced.rec.some =>
                /\ traced.lookup = "found"
                /\ 1 <= traced.rec.mat_handle
                /\ traced.rec.mat_handle <= traced.table_len
                /\ traced.table_len <= Len(world.materials)

\* A hit on a hittable of the first material, found after a second material
\* was registered.
C11_Witness ==
    /\ Len(world.materials) = 2
    /\ Len(world.hittables) = 2
    /\ traced # << >>
    /\ traced.table_len = 2
    /\ traced.lookup = "found"
    /\ traced.rec.mat_handle = 1
    /\ world.hittables[1].kind = "Sphere"
    /\ world.hittables[1].mat_handle = 1
    /\ world.hittables[2].kind = "Translate"
    /\ world.hittables[2].ptr.ptr.mat_handle = 2

\* ------------------------------------------------- intersection queries
\* ray origins have z in -MaxCoord .. MaxCoord; a list holds up to MaxList hittables
MaxCoord == 2
MaxList == 2

\* Hittable::new_rotate_y(0.0, ..) and (180.0, ..)
Angles == { 0, 180 }

UnitBox(mat_handle) == new_box(<< -1, -1, -1 >>, << 1, 1, 1 >>, mat_handle)

\* One hittable of every variant that reports hits, and the two wrappers
\* around a sphere and around a box.
HitCatalog ==
    { Sphere(1, << 0, 0, 0 >>, 1),
      MovingSphere(1, << 0, 0, 0 >>, << 1, 0, 0 >>, 0, 1, 1),
      XYRect(1, -1, 1, -1, 1, 0),
      XZRect(1, -1, 1, -1, 1, 0),
      YZRect(1, -1, 1, -1, 1, 0),
      UnitBox(1),
      Translate(<< 1, 0, 0 >>, Sphere(1, << 0, 0, 0 >>, 1)),
      Translate(<< 0, 0, 1 >>, UnitBox(1)) }
    \cup { new_rotate_y(angle, Sphere(1, << 0, 0, 0 >>, 1)) : angle \in Angles }
    \cup { new_rotate_y(angle, UnitBox(1)) : angle \in Angles }

\* The elements of the lists handed to hit_hittables: two spheres that
\* overlap and a rectangle through both.
ListCatalog ==
    { Sphere(1, << 0, 0, 0 >>, 1),
      Sphere(2, << 0, 0, 1 >>, 1),
      XYRect(3, -1, 1, -1, 1, 0) }

Directions == { d \in {-1, 0, 1} \X {-1, 0, 1} \X {-1, 0, 1} : d # << 0, 0, 0 >> }
AxisDirections == { d \in Directions : Cardinality({ c \in 1 .. 3 : d[c] # 0 }) = 1 }
Origins == { o \in (-1 .. 1) \X { 0 } \X (-MaxCoord .. MaxCoord) : TRUE }

HitRays ==
    { Ray_with_time(o, d, time) : o \in Origins, d \in Directions, time \in { 0, 1 } }
ListRays == { Ray_with_time(o, d, 0) : o \in Origins, d \in AxisDirections }

\* The bounds of a query: ray_color's (0.001, INFINITY), the lower bound
\* written 0, and two finite ranges.
Ranges == { << 0, INFINITY >>, << 1, 3 >>, << 0, 2 >> }

\* The arithmetic of sphere_hit on (center, radius, r) is exact: the square
\* root and the quotients it takes are integers.
ExactSphere(center, radius, r) ==
    LET oc == vsub(r.origin, center)
        a == length_squared(r.direction)
        half_b == dot(oc, r.direction)
        discriminant == half_b * half_b - a * (length_squared(oc) - radius * radius)
    IN  \/ discriminant < 0
        \/ /\ IsSquare(discriminant)
           /\ radius = 1
           /\ Divides(a, -half_b - f64_sqrt(discriminant))
           /\ Divides(a, -half_b + f64_sqrt(discriminant))

RECURSIVE Exact(_, _)
Exact(self, r) ==
    CASE self.kind = "Sphere" -> ExactSphere(self.center, self.radius, r)
      [] self.kind = "MovingSphere" ->
            ExactSphere(get_center_at_time(self.center_0, self.center_1, self.time_0,
                                           self.time_1, r.time), self.radius, r)
      [] self.kind = "Translate" -> Exact(self.ptr, translate_ray(self.offset, r))
      [] self.kind = "RotateY" ->
            Exact(self.ptr, rotate_ray(self.sin_theta, self.cos_theta, r))
      [] OTHER -> TRUE

\* A query is put: a list, a ray and bounds on which the arithmetic is exact.
HitInput(lists, rays) ==
    /\ qPc = "input"
    /\ qList \in lists
    /\ qRay \in rays
    /\ \A n \in 1 .. Len(qList) : Exact(qList[n], qRay)
    /\ \E range \in Ranges : qTMin = range[1] /\ qTMax = range[2]
    /\ qEach = << >>
    /\ qRec = << >>

\* hittable.hit(ray, t_min, t_max) on every element of the list
HitEach ==
    /\ qPc = "input"
    /\ qEach' = [n \in 1 .. Len(qList) |-> hit(qList[n], qRay, qTMin, qTMax)]
    /\ qPc' = "each"
    /\ UNCHANGED << qList, qRay, qTMin, qTMax, qRec >>
    /\ UNCHANGED offHit

\* hit_hittables(list, ray, t_min, t_max)
HitList ==
    /\ qPc = "each"
    /\ qRec' = hit_hittables(qList, qRay, qTMin, qTMax)
    /\ qPc' = "done"
    /\ UNCHANGED << qList, qRay, qTMin, qTMax, qEach >>
    /\ UNCHANGED offHit

NextHit ==
    \/ HitEach
    \/ HitList

\* the time of the ray matters to the moving sphere alone
InitHit ==
    /\ InitRender /\ RcIdle /\ WorldIdle /\ BoxIdle /\ BvhIdle /\ ValueIdle
    /\ HitInput({ << h >> : h \in HitCatalog }, HitRays)
    /\ qList[1].kind # "MovingSphere" => qRay.time = 0

SpecHit == InitHit /\ [][NextHit]_vars

Lists(n) == UNION { [1 .. len -> ListCatalog] : len \in 0 .. n }

InitHitList ==
    /\ InitRender /\ RcIdle /\ WorldIdle /\ BoxIdle /\ BvhIdle /\ ValueIdle
    /\ HitInput(Lists(MaxList), ListRays)

SpecHitList == InitHitList /\ [][NextHit]_vars

\* The lists with the elements of `list` in another order.
Reorderings(list) ==
    { [n \in 1 .. Len(list) |-> list[p[n]]] :
        p \in { q \in [1 .. Len(list) -> 1 .. Len(list)] :
                  \A i, j \in 1 .. Len(list) : q[i] = q[j] => i = j } }

\* The elements of the list that report a hit for the ray and the bounds.
Hitters == { n \in 1 .. Len(qList) : qEach[n].some }

\* C12: hit_hittables returns None exactly when no element of the list reports
\* a hit within the bounds; otherwise the t of its record is the least t the
\* elements report, and the same t is returned for every order of the list.
C12_NearestOfList ==
    qPc = "done" =>
        /\ qRec.some <=> Hitters # {}
        /\ qRec.some =>
              /\ \E n \in Hitters : qEach[n].t = qRec.t
              /\ \A n \in Hitters : ~flt(qEach[n].t, qRec.t)
        /\ \A other \in Reorderings(qList) :
              LET rec == hit_hittables(other, qRay, qTMin, qTMax)
              IN  rec.some = qRec.some /\ rec.t = qRec.t

\* The hittable queried alone, and the record its hit returned.
Asked == qList[1]
Answer == qEach[1]
Answered == qPc \in { "each", "done" } /\ Len(qList) = 1

\* C17: a record returned by hit(ray, t_min, t_max) on a sphere, a moving
\* sphere or a rectangle has t_min < t < t_max.
C17_OpenInterval ==
    (/\ Answered
     /\ Asked.kind \in { "Sphere", "MovingSphere", "XYRect", "XZRect", "YZRect" }
     /\ Answer.some)
        => flt(qTMin, Answer.t) /\ flt(Answer.t, qTMax)

\* C18: the normal of every record returned by hit, on any variant and under
\* Translate and RotateY, opposes the ray given to that call:
\* dot(ray.direction, rec.normal) <= 0.
C18_NormalOpposesRay ==
    (Answered /\ Answer.some) => fle(dot(qRay.direction, Answer.normal), 0)

\* What the hittable inside a Translate returns for the ray moved back by the offset.
InnerOfTranslate == hit(Asked.ptr, translate_ray(Asked.offset, qRay), qTMin, qTMax)

\* C19: Translate reports a hit exactly when the wrapped hittable does for the
\* ray with its origin shifted by -offset, with the same t, the point moved by
\* the offset and the very normal of the wrapped record.
C19_TranslateEquivalent ==
    (Answered /\ Asked.kind = "Translate") =>
        /\ Answer.some = InnerOfTranslate.some
        /\ Answer.some =>
              /\ Answer.t = InnerOfTranslate.t
              /\ Answer.point = vadd(InnerOfTranslate.point, Asked.offset)
              /\ Answer.normal = InnerOfTranslate.normal

\* What the hittable inside a RotateY returns for the very ray of the query.
InnerOfRotate == hit(Asked.ptr, qRay, qTMin, qTMax)

\* C20: a RotateY built with angle 0 reports a hit exactly when the wrapped
\* hittable does, with its t, its point and its normal.
C20_RotateZeroIdentity ==
    (/\ Answered
     /\ Asked.kind = "RotateY"
     /\ Asked.sin_theta = sin_degrees(0)
     /\ Asked.cos_theta = cos_degrees(0))
        => /\ Answer.some = InnerOfRotate.some
           /\ Answer.some =>
                 /\ Answer.t = InnerOfRotate.t
                 /\ Answer.point = InnerOfRotate.point
                 /\ Answer.normal = InnerOfRotate.normal

\* ------------------------------------------------------ aabb.rs: AABB::hit
\* Mutant of SlabEntryExit: t0 and t1 are never swapped.
SlabNoSwap(inv_d, t0, t1) == << t0, t1 >>

\* if inv_d < 0.0 { std::mem::swap(&mut t0, &mut t1) }
SlabEntryExit(inv_d, t0, t1) == IF flt(inv_d, 0) THEN << t1, t0 >> ELSE << t0, t1 >>

\* The loop of AABB::hit from axis a on (1, 2, 3 for x, y, z), with min and max
\* as they stand: the answer, and the axis at which it was given (4: after the
\* loop).
RECURSIVE AABB_hit_from(_, _, _, _, _)
AABB_hit_from(self, r, a, min, max) ==
    IF a > 3 THEN [hit |-> TRUE, axis |-> a]
    ELSE LET inv_d == fdiv(1, r.direction[a])
             t == SlabEntryExit(inv_d,
                                fmul(fsub(self.minimum[a], r.origin[a]), inv_d),
                                fmul(fsub(self.maximum[a], r.origin[a]), inv_d))
             min1 == IF flt(min, t[1]) THEN t[1] ELSE min
             max1 == IF flt(t[2], max) THEN t[2] ELSE max
         IN  IF fle(max1, min1) THEN [hit |-> FALSE, axis |-> a]
             ELSE AABB_hit_from(self, r, a + 1, min1, max1)

\* AABB::hit
AABB_hit(self, r, t_min, t_max) == AABB_hit_from(self, r, 1, t_min, t_max)

\* surrounding_box folded over the first n boxes of a list, left to right.
RECURSIVE SurroundFirst(_, _)
SurroundFirst(list, n) ==
    IF n = 1 THEN list[1] ELSE surrounding_box(SurroundFirst(list, n - 1), list[n])

\* The corners the boxes are made of; a box may come with its corners in
\* either order.
BoxCorners == { << -1, -1, -1 >>, << 1, 1, 1 >>, << -1, 1, 0 >>, << 0, -1, 1 >> }
BoxChoices == { AABB_new(a, b) : a, b \in BoxCorners }

\* The boxes a ray is tested against: the box of the spec's example, a box
\* off the origin and a box without thickness.
HitBoxes ==
    { AABB_new(<< -1, -1, -1 >>, << 1, 1, 1 >>),
      AABB_new(<< 0, 0, 1 >>, << 2, 1, 2 >>),
      AABB_new(<< -1, -1, 0 >>, << 1, 1, 0 >>) }

BoxOrigins ==
    ((-MaxCoord .. MaxCoord) \X (-1 .. 1) \X (-MaxCoord .. MaxCoord)) \cup { << -5, 0, 0 >> }
BoxRays == { Ray_with_time(o, d, 0) : o \in BoxOrigins, d \in Directions }

\* Three boxes are given.
InitSurround ==
    /\ InitRender /\ RcIdle /\ WorldIdle /\ HitIdle /\ BvhIdle /\ ValueIdle
    /\ boxPc = "input"
    /\ boxes \in [1 .. 3 -> BoxChoices]
    /\ boxRay = << >>
    /\ boxTMin = 0
    /\ boxTMax = 0
    /\ folded = << >>
    /\ boxHit = FALSE

\* AABB::surrounding_box over the boxes, one after the other
SurroundAll ==
    /\ boxPc = "input"
    /\ Len(boxes) = 3
    /\ folded' = SurroundFirst(boxes, Len(boxes))
    /\ boxPc' = "done"
    /\ UNCHANGED << boxes, boxRay, boxTMin, boxTMax, boxHit >>
    /\ UNCHANGED offBox

SpecSurround == InitSurround /\ [][SurroundAll]_vars

\* A box, a ray and bounds are given.
InitBoxHit ==
    /\ InitRender /\ RcIdle /\ WorldIdle /\ HitIdle /\ BvhIdle /\ ValueIdle
    /\ boxPc = "input"
    /\ boxes \in { << b >> : b \in HitBoxes }
    /\ boxRay \in BoxRays
    /\ \E range \in Ranges : boxTMin = range[1] /\ boxTMax = range[2]
    /\ folded = << >>
    /\ boxHit = FALSE

\* AABB::hit
BoxHit ==
    /\ boxPc = "input"
    /\ Len(boxes) = 1
    /\ boxHit' = AABB_hit(boxes[1], boxRay, boxTMin, boxTMax)
    /\ boxPc' = "done"
    /\ UNCHANGED << boxes, boxRay, boxTMin, boxTMax, folded >>
    /\ UNCHANGED offBox

SpecBoxHit == InitBoxHit /\ [][BoxHit]_vars

\* minimum[i] <= maximum[i] on every axis
WellFormed(b) == \A i \in 1 .. 3 : b.minimum[i] <= b.maximum[i]

\* outer contains inner
Contains(outer, inner) ==
    \A i \in 1 .. 3 :
        outer.minimum[i] <= inner.minimum[i] /\ inner.maximum[i] <= outer.maximum[i]

\* s is, axis by axis, the least of the two minimums and the greatest of the
\* two maximums.
IsUnionOf(s, a, b) ==
    \A i \in 1 .. 3 :
        /\ s.minimum[i] \in { a.minimum[i], b.minimum[i] }
        /\ s.minimum[i] <= a.minimum[i] /\ s.minimum[i] <= b.minimum[i]
        /\ s.maximum[i] \in { a.maximum[i], b.maximum[i] }
        /\ s.maximum[i] >= a.maximum[i] /\ s.maximum[i] >= b.maximum[i]

\* C15: surrounding_box is commutative and associative, returns per axis the
\* min of the minimums and the max of the maximums (the least box containing
\* both when they are well formed), gives the same box for every order of a
\* list it is folded over, and keeps minimum <= maximum.
C15_SurroundingBoxAlgebra ==
    boxPc = "done" =>
        /\ \A i, j \in 1 .. 3 :
              LET s == surrounding_box(boxes[i], boxes[j])
              IN  /\ s = surrounding_box(boxes[j], boxes[i])
                  /\ IsUnionOf(s, boxes[i], boxes[j])
                  /\ (WellFormed(boxes[i]) /\ WellFormed(boxes[j])) =>
                        /\ WellFormed(s)
                        /\ Contains(s, boxes[i]) /\ Contains(s, boxes[j])
                        /\ \A other \in BoxChoices :
                              (Contains(other, boxes[i]) /\ Contains(other, boxes[j]))
                                  => Contains(other, s)
        /\ surrounding_box(surrounding_box(boxes[1], boxes[2]), boxes[3])
              = surrounding_box(boxes[1], surrounding_box(boxes[2], boxes[3]))
        /\ \A other \in Reorderings(boxes) : SurroundFirst(other, 3) = folded

\* Three different well-formed boxes, none of which contains the others, were
\* folded into the box around all of them.
C15_Witness ==
    /\ boxPc = "done"
    /\ boxes[1] = AABB_new(<< -1, -1, -1 >>, << -1, 1, 0 >>)
    /\ boxes[2] = AABB_new(<< 0, -1, 1 >>, << 1, 1, 1 >>)
    /\ boxes[3] = AABB_new(<< -1, 1, 0 >>, << 1, 1, 1 >>)
    /\ folded = AABB_new(<< -1, -1, -1 >>, << 1, 1, 1 >>)

\* The box and the ray of the slab test.
TheBox == boxes[1]
Inside(a) ==
    TheBox.minimum[a] < boxRay.origin[a] /\ boxRay.origin[a] < TheBox.maximum[a]
Outside(a) ==
    boxRay.origin[a] < TheBox.minimum[a] \/ TheBox.maximum[a] < boxRay.origin[a]

\* The parameters at which the ray crosses the two planes of slab a (the
\* direction component is 1 or -1 there).
Crossings(a) ==
    { (TheBox.minimum[a] - boxRay.origin[a]) * boxRay.direction[a],
      (TheBox.maximum[a] - boxRay.origin[a]) * boxRay.direction[a] }

\* The parameter interval of slab a: from the first crossing to the second;
\* everything for a parallel ray that starts inside the slab, nothing for one
\* that starts outside it.
SlabLow(a) ==
    IF boxRay.direction[a] # 0 THEN CHOOSE x \in Crossings(a) : \A y \in Crossings(a) : x <= y
    ELSE IF Inside(a) THEN NEG_INFINITY ELSE INFINITY
SlabHigh(a) ==
    IF boxRay.direction[a] # 0 THEN CHOOSE x \in Crossings(a) : \A y \in Crossings(a) : x >= y
    ELSE IF Inside(a) THEN INFINITY ELSE NEG_INFINITY

\* (t_min, t_max) cut by the slabs of the axes 1 .. a.
LowUpTo(a) ==
    LET lows == { boxTMin } \cup { SlabLow(b) : b \in 1 .. a }
    IN  CHOOSE x \in lows : \A y \in lows : x >= y
HighUpTo(a) ==
    LET highs == { boxTMax } \cup { SlabHigh(b) : b \in 1 .. a }
    IN  CHOOSE x \in highs : \A y \in highs : x <= y
EmptyUpTo(a) == HighUpTo(a) <= LowUpTo(a)

\* No axis has the ray parallel to the slab with its origin on a face of it.
OffTheFaces == \A a \in 1 .. 3 : boxRay.direction[a] = 0 => (Inside(a) \/ Outside(a))

\* C16: AABB::hit returns true exactly when (t_min, t_max) cut by the three
\* slab intervals is not empty, and returns false at the first axis at which
\* the running interval has max <= min; a zero direction component puts no
\* constraint when the origin is strictly inside the slab and forces a miss
\* when it is strictly outside; from (-5,0,0) the box [(-1,-1,-1),(1,1,1)] is
\* hit along (1,0,0) and missed along (0,1,0).
C16_SlabTest ==
    (boxPc = "done" /\ OffTheFaces) =>
        /\ boxHit.hit <=> ~EmptyUpTo(3)
        /\ \A a \in 1 .. 3 :
              boxHit.axis = a <=> (EmptyUpTo(a) /\ \A b \in 1 .. a - 1 : ~EmptyUpTo(b))
        /\ \A a \in 1 .. 3 : (boxRay.direction[a] = 0 /\ Outside(a)) => ~boxHit.hit
        /\ (/\ TheBox = AABB_new(<< -1, -1, -1 >>, << 1, 1, 1 >>)
            /\ boxRay.origin = << -5, 0, 0 >>
            /\ boxTMax = INFINITY)
              => /\ boxRay.direction = << 1, 0, 0 >> => boxHit.hit
                 /\ boxRay.direction = << 0, 1, 0 >> => ~boxHit.hit

\* The spec's example: the ray from (-5,0,0) along (1,0,0), parallel to two
\* slabs and inside both, hits the box.
C16_Witness ==
    /\ boxPc = "done"
    /\ TheBox = AABB_new(<< -1, -1, -1 >>, << 1, 1, 1 >>)
    /\ boxRay.origin = << -5, 0, 0 >>
    /\ boxRay.direction = << 1, 0, 0 >>
    /\ boxTMin = 0
    /\ boxTMax = INFINITY
    /\ boxHit.hit
    /\ boxHit.axis = 4

\* --------------------------------------------- hittable.rs: new_bvh_node
\* new_bvh_node is called on lists of up to MaxPrims primitives
MaxPrims == 3
\* the nested calls of new_bvh_node are followed to this depth
MaxBvhDepth == 4

\* The primitives put under a tree: unit spheres along the x axis.
BvhPrims == { Sphere(1, << x, 0, 0 >>, 1) : x \in { -2, 0, 2 } }

BvhRays ==
    { Ray_with_time(<< -2, 0, -3 >>, << 0, 0, 1 >>, 0),
      Ray_with_time(<< 0, 0, -3 >>, << 0, 0, 1 >>, 0),
      Ray_with_time(<< 0, 3, -3 >>, << 0, 0, 1 >>, 0) }

\* vec[i] of a Vec, whose indices start at 0
At(vec, i) == vec[i + 1]

\* AABB::box_compare, with "Less", "Greater", "Equal" for std::cmp::Ordering
box_compare(a, b, axis) ==
    LET box_a == bounding_box(a, 0, 0)
        box_b == bounding_box(b, 0, 0)
    IN  IF box_a.some /\ box_b.some
        THEN (IF flt(At(box_a.box.minimum, axis), At(box_b.box.minimum, axis))
              THEN "Less" ELSE "Greater")
        ELSE "Equal"

\* What indices_cpy[start..end].sort_by(comparator) can leave in indices_cpy:
\* the slice rearranged so that no element is Less than one before it.
SortedSlices(list, indices_cpy, start, end, axis) ==
    { s \in [1 .. Len(indices_cpy) -> 0 .. Len(list) - 1] :
        /\ \A i \in 0 .. Len(indices_cpy) - 1 :
              (i < start \/ i >= end) => At(s, i) = At(indices_cpy, i)
        /\ \A v \in 0 .. Len(list) - 1 :
              Cardinality({ i \in start .. end - 1 : At(s, i) = v })
                  = Cardinality({ i \in start .. end - 1 : At(indices_cpy, i) = v })
        /\ \A i, j \in start .. end - 1 :
              i < j => box_compare(At(list, At(s, j)), At(list, At(s, i)), axis) # "Less" }

\* The surrounding_box of the boxes of the primitives of a range, folded
\* from the first to the last.
NodeBoxUnion(list, indices_cpy, start, end) ==
    LET bx(i) == bounding_box(At(list, At(indices_cpy, i)), 0, 1).box
        around[i \in start .. end - 1] ==
            IF i = start THEN bx(i) ELSE surrounding_box(around[i - 1], bx(i))
    IN  around[end - 1]

\* aabb_box: AABB::new(Point3::new(0.0, 0.0, 0.0), Point3::new(0.0, 0.0, 0.0))
NodeBox(list, indices_cpy, start, end) == ZeroBox

\* Hittable::BvhNode { list: indices_cpy, left_index, right_index, aabb_box }
BvhNode(indices_cpy, left, right, aabb_box) ==
    [kind |-> "BvhNode", list |-> indices_cpy, left_index |-> left,
     right_index |-> right, aabb_box |-> aabb_box]

\* A call new_bvh_node(indices, list, start, end, ..) at its entry.
BvhFrame(start, end) ==
    [start |-> start, end |-> end, stage |-> "enter", indices_cpy |-> bvhIndices,
     axis |-> 0, left_node |-> << >>, calls |-> << >>]

\* The range given to both recursive calls: (start, mid).
ChildFrame(frame) ==
    BvhFrame(frame.start, frame.start + (frame.end - frame.start) \div 2)

\* new_bvh_node(&indices, &mut list, 0, list.len(), ..) is called.
InitBvh ==
    /\ InitRender /\ RcIdle /\ WorldIdle /\ HitIdle /\ BoxIdle /\ ValueIdle
    /\ bvhPc = "call"
    /\ bvhList \in UNION { [1 .. n -> BvhPrims] : n \in 0 .. MaxPrims }
    /\ bvhIndices = [n \in 1 .. Len(bvhList) |-> n - 1]
    /\ bvhStack = << BvhFrame(0, Len(bvhList)) >>
    /\ bvhRet = << >>
    /\ bvhNodes = << >>
    /\ bvhRay = << >>
    /\ bvhHit = << >>
    /\ bvhScan = << >>

\* The innermost call runs from its entry to its return (a span of 1 or 2) or
\* to its first recursive call.
BvhEnter ==
    /\ bvhPc = "call"
    /\ LET top == Len(bvhStack)
           frame == bvhStack[top]
           start == frame.start
           end == frame.end
           object_span == end - start
       IN  \E axis \in 0 .. 2 :
             IF object_span = 1
             THEN /\ bvhRet' = BvhNode(frame.indices_cpy, start, start,
                                       NodeBox(bvhList, frame.indices_cpy, start, end))
                  /\ bvhPc' = "return"
                  /\ bvhStack' = [bvhStack EXCEPT ![top].axis = axis]
             ELSE IF object_span = 2
             THEN LET swap == box_compare(At(bvhList, At(frame.indices_cpy, start)),
                                          At(bvhList, At(frame.indices_cpy, start + 1)),
                                          axis) = "Greater"
                  IN  /\ bvhRet' = BvhNode(frame.indices_cpy,
                                           IF swap THEN start ELSE start + 1,
                                           IF swap THEN start + 1 ELSE start,
                                           NodeBox(bvhList, frame.indices_cpy, start, end))
                      /\ bvhPc' = "return"
                      /\ bvhStack' = [bvhStack EXCEPT ![top].axis = axis]
             ELSE \E sorted \in SortedSlices(bvhList, frame.indices_cpy, start, end, axis) :
                      /\ Len(bvhStack) < MaxBvhDepth
                      /\ bvhStack' = Append(
                             [bvhStack EXCEPT ![top] =
                                 [frame EXCEPT !.stage = "left", !.axis = axis,
                                               !.indices_cpy = sorted]],
                             ChildFrame(frame))
                      /\ bvhPc' = "call"
                      /\ UNCHANGED bvhRet
    /\ UNCHANGED << bvhList, bvhIndices, bvhNodes, bvhRay, bvhHit, bvhScan >>
    /\ UNCHANGED offBvh

\* The innermost call has returned bvhRet.  Its caller, if it waited for
\* left_node, makes its second recursive call; if it waited for right_node,
\* it pushes both nodes onto list and returns its own node.
BvhReturn ==
    /\ bvhPc = "return"
    /\ LET top == Len(bvhStack)
           done == bvhStack[top]
           rest == SubSeq(bvhStack, 1, top - 1)
           made == [node |-> bvhRet, start |-> done.start, end |-> done.end,
                    axis |-> done.axis, calls |-> done.calls]
       IN  /\ bvhNodes' = Append(bvhNodes, made)
           /\ IF top = 1
              THEN /\ bvhPc' = "built"
                   /\ bvhStack' = rest
                   /\ UNCHANGED << bvhRet, bvhList >>
              ELSE LET caller == rest[top - 1]
                   IN  IF caller.stage = "left"
                       THEN /\ bvhStack' = Append(
                                   [rest EXCEPT ![top - 1] =
                                       [caller EXCEPT !.stage = "right",
                                                      !.left_node = bvhRet,
                                                      !.calls = Append(@, made)]],
                                   ChildFrame(caller))
                            /\ bvhPc' = "call"
                            /\ UNCHANGED << bvhRet, bvhList >>
                       ELSE /\ bvhList' = Append(Append(bvhList, caller.left_node), bvhRet)
                            /\ bvhRet' = BvhNode(caller.indices_cpy,
                                                 Len(bvhList') - 2, Len(bvhList') - 1,
                                                 NodeBox(bvhList, caller.indices_cpy,
                                                         caller.start, caller.end))
                            /\ bvhStack' = [rest EXCEPT ![top - 1].calls = Append(@, made)]
                            /\ bvhPc' = "return"
    /\ UNCHANGED << bvhIndices, bvhRay, bvhHit, bvhScan >>
    /\ UNCHANGED offBvh

\* The primitives the tree was built over.
Primitives == [n \in 1 .. Len(bvhIndices) |-> At(bvhList, At(bvhIndices, n - 1))]

\* A ray is tested against the node new_bvh_node returned, and against the
\* primitives one by one.
BvhTest ==
    /\ bvhPc = "built"
    /\ \E r \in BvhRays :
          /\ bvhRay' = r
          /\ bvhHit' = hit(bvhRet, r, 0, INFINITY)
          /\ bvhScan' = hit_hittables(Primitives, r, 0, INFINITY)
    /\ bvhPc' = "done"
    /\ UNCHANGED << bvhList, bvhIndices, bvhStack, bvhRet, bvhNodes >>
    /\ UNCHANGED offBvh

NextBvh ==
    \/ BvhEnter
    \/ BvhReturn
    \/ BvhTest

SpecBvh == InitBvh /\ [][NextBvh]_vars

\* C13: hit on the node built over a set of primitives returns the record the
\* scan of hit_hittables over the same primitives returns (same point, t and
\* material handle), or both return none.
C13_BvhEqualsScan ==
    bvhPc = "done" =>
        /\ bvhHit.some = bvhScan.some
        /\ bvhHit.some =>
              /\ bvhHit.point = bvhScan.point
              /\ bvhHit.t = bvhScan.t
              /\ bvhHit.mat_handle = bvhScan.mat_handle

\* C14: the box of every node new_bvh_node returns contains the box of every
\* primitive of the node's range and is the surrounding_box of them.
C14_TightNodeBox ==
    \A n \in 1 .. Len(bvhNodes) :
        LET made == bvhNodes[n]
            node_box == bounding_box(made.node, 0, 1)
        IN  /\ node_box.some
            /\ \A i \in made.start .. made.end - 1 :
                  Contains(node_box.box,
                           bounding_box(At(bvhList, At(made.node.list, i)), 0, 1).box)
            /\ node_box.box
                  = NodeBoxUnion(bvhList, made.node.list, made.start, made.end)

\* --------------------------------------------- math.rs: clamp, write_color
\* The f64 values of write_color and of the image texture are fractions
\* num/den in lowest terms with den > 0, and 1/0, -1/0 and 0/0 for the
\* infinities and NaN.
RECURSIVE Gcd(_, _)
Gcd(a, b) == IF b = 0 THEN a ELSE Gcd(b, a % b)

Frac(n, d) ==
    IF d = 0 THEN [num |-> Sign(n), den |-> 0]
    ELSE LET g == Gcd(Abs(n), Abs(d))
         IN  [num |-> (Sign(d) * n) \div g, den |-> Abs(d) \div g]

QNaN == Frac(0, 0)
QInf == Frac(1, 0)
QNegInf == Frac(-1, 0)
IsQNaN(x) == x = QNaN
IsFinite(x) == x.den # 0

\* x < y on f64: false when either is NaN
qlt(x, y) ==
    /\ ~IsQNaN(x)
    /\ ~IsQNaN(y)
    /\ IF IsFinite(x) /\ IsFinite(y) THEN x.num * y.den < y.num * x.den
       ELSE IF ~IsFinite(x) /\ ~IsFinite(y) THEN x.num < y.num
       ELSE IF ~IsFinite(x) THEN x.num < 0
       ELSE y.num > 0

\* x * y on f64
qmul(x, y) ==
    IF IsQNaN(x) \/ IsQNaN(y) THEN QNaN
    ELSE Frac(x.num * y.num, x.den * y.den)

\* x - y on f64
qsub(x, y) ==
    IF IsQNaN(x) \/ IsQNaN(y) THEN QNaN
    ELSE IF IsFinite(x) /\ IsFinite(y)
         THEN Frac(x.num * y.den - y.num * x.den, x.den * y.den)
    ELSE IF IsFinite(y) THEN x
    ELSE IF IsFinite(x) THEN Frac(-y.num, 0)
    ELSE IF x = y THEN QNaN ELSE x

\* The whole numbers whose square is v (one or none).
IntRoots(v) == { n \in 0 .. v : n * n = v }

\* x.sqrt() is one of the fractions of the model
HasRoot(x) ==
    \/ ~IsFinite(x)
    \/ x.num < 0
    \/ IntRoots(x.num) # {} /\ IntRoots(x.den) # {}

\* f64::sqrt
qsqrt(x) ==
    IF IsQNaN(x) \/ x.num < 0 THEN QNaN
    ELSE IF ~IsFinite(x) THEN x
    ELSE Frac(CHOOSE n \in IntRoots(x.num) : TRUE, CHOOSE n \in IntRoots(x.den) : TRUE)

\* i32::MAX
I32Max == 2147483647

\* `x as i32` for an x that is not below 0: NaN gives 0, the fraction is cut off
\* and the cast saturates.
as_i32(x) ==
    IF IsQNaN(x) THEN 0
    ELSE IF ~IsFinite(x) THEN I32Max
    ELSE x.num \div x.den

\* Mutant of clamp: the upper bound is not applied.
clamp_low_only(x, min, max) ==
    IF qlt(x, min) THEN min ELSE x

\* pub fn clamp(x: f64, min: f64, max: f64) -> f64
clamp(x, min, max) ==
    IF qlt(x, min) THEN min
    ELSE IF qlt(max, x) THEN max
    ELSE x

\* (256.0 * clamp((c * scale).sqrt(), 0.0, 0.999)) as i32 for one channel c
Channel(c, scale) ==
    as_i32(qmul(Frac(256, 1), clamp(qsqrt(qmul(c, scale)), Frac(0, 1), Frac(999, 1000))))

\* The three numbers Vector3::write_color prints.
write_color(self, samples) ==
    LET scale == Frac(1, samples)
    IN  << Channel(self[1], scale), Channel(self[2], scale), Channel(self[3], scale) >>

\* accumulated channels go up to MaxChannel
MaxChannel == 4

\* The channel values tried: wholes and quarters from below zero to MaxChannel,
\* the infinities and NaN.
Channels ==
    { Frac(n, d) : n \in -1 .. MaxChannel, d \in { 1, 4 } } \cup { QNaN, QInf, QNegInf }

\* 1.0 / samples and the square root are exact in f64 and in the model.
ExactColor(self, samples) ==
    /\ samples \in { 1, 2, 4, 8 }
    /\ \A n \in 1 .. 3 : HasRoot(qmul(self[n], Frac(1, samples)))

InitWriteColor ==
    /\ InitRender /\ RcIdle /\ WorldIdle /\ HitIdle /\ BoxIdle /\ BvhIdle
    /\ PermIdle /\ TexIdle /\ SizeIdle
    /\ wc \in [pc : { "call" }, self : [1 .. 3 -> Channels],
                samples : 1 .. SamplesPerPixel, out : { << >> }]
    /\ ExactColor(wc.self, wc.samples)

\* self.write_color(samples_per_pixel)
WriteColor ==
    /\ wc.pc = "call"
    /\ wc' = [wc EXCEPT !.out = write_color(wc.self, wc.samples), !.pc = "printed"]
    /\ UNCHANGED offColor

SpecWriteColor == InitWriteColor /\ [][WriteColor]_vars

\* C21: the three values write_color prints are integers from 0 to 255,
\* whatever the colour (negative, far above the sample count, infinite or NaN)
\* and whatever the positive sample count.
C21_ChannelsInRange ==
    wc.pc = "printed" => \A n \in 1 .. 3 : wc.out[n] \in 0 .. 255

C21_Witness ==
    /\ wc.pc = "printed"
    /\ wc.self[1].num < 0
    /\ IsFinite(wc.self[2]) /\ wc.self[2].num > wc.samples * wc.self[2].den
    /\ IsFinite(wc.self[3]) /\ wc.self[3].num > 0 /\ wc.self[3].num < wc.self[3].den
    /\ wc.out[1] = 0
    /\ wc.out[2] = 255
    /\ wc.out[3] \in 1 .. 254

\* ------------------------------------------------ claims on new_bvh_node
\* The nodes returned so far by calls on a range of the given spans.
MadeWithSpan(spans) ==
    { n \in 1 .. Len(bvhNodes) : bvhNodes[n].end - bvhNodes[n].start \in spans }

\* The primitive indices a returned node was built over.
Beneath(made) == { At(made.node.list, i) : i \in made.start .. made.end - 1 }

\* C22: a node over more than two primitives has a left child built over
\* [start, mid) and a right child built over [mid, end) of its sorted range,
\* with mid = start + span / 2, so that each primitive index of [start, end)
\* is beneath exactly one of the two children.
C22_SplitCoversRange ==
    \A n \in MadeWithSpan(3 .. MaxPrims + 1) :
        LET made == bvhNodes[n]
            mid == made.start + (made.end - made.start) \div 2
            sorted(from, to) == { At(made.node.list, i) : i \in from .. to - 1 }
        IN  /\ Len(made.calls) = 2
            /\ made.calls[1].start = made.start /\ made.calls[1].end = mid
            /\ made.calls[2].start = mid /\ made.calls[2].end = made.end
            /\ Beneath(made.calls[1]) = sorted(made.start, mid)
            /\ Beneath(made.calls[2]) = sorted(mid, made.end)
            /\ Beneath(made.calls[1]) \cap Beneath(made.calls[2]) = {}

\* std::cmp::Ordering::reverse
Reverse(ordering) ==
    CASE ordering = "Less" -> "Greater"
      [] ordering = "Greater" -> "Less"
      [] OTHER -> "Equal"

\* C27: for primitives that have bounding boxes, box_compare(a, b) is the
\* reverse of box_compare(b, a), and it is Equal when the two minimum corners
\* are equal on the axis, a primitive compared with itself included.
C27_ComparatorConsistent ==
    \A i, j \in 1 .. Len(bvhList), axis \in 0 .. 2 :
        LET a == bvhList[i]
            b == bvhList[j]
            box_a == bounding_box(a, 0, 0)
            box_b == bounding_box(b, 0, 0)
        IN  box_a.some /\ box_b.some =>
              /\ box_compare(a, b, axis) = Reverse(box_compare(b, a, axis))
              /\ At(box_a.box.minimum, axis) = At(box_b.box.minimum, axis)
                    => box_compare(a, b, axis) = "Equal"

\* C28: a node over exactly two primitives is built without a recursive call,
\* and the minimum corner of its left primitive on the chosen axis is not
\* greater than that of its right primitive.
C28_PairOrdered ==
    \A n \in MadeWithSpan({2}) :
        LET made == bvhNodes[n]
            child(index) == At(bvhList, At(made.node.list, index))
            low(index) == At(bounding_box(child(index), 0, 0).box.minimum, made.axis)
        IN  /\ made.calls = << >>
            /\ fle(low(made.node.left_index), low(made.node.right_index))

\* C29: every call of new_bvh_node that is in progress was given a smaller
\* span than its caller, the empty range included, and calls on a span of one
\* or two make no call.
C29_SpansShrink ==
    \A n \in 1 .. Len(bvhStack) :
        LET span(frame) == frame.end - frame.start
        IN  /\ n > 1 => span(bvhStack[n]) < span(bvhStack[n - 1])
            /\ span(bvhStack[n]) \in 1 .. 2 => n = Len(bvhStack)

\* ------------------------------------------------------------- perlin.rs
\* const POINT_COUNT: usize (perlin.rs:3 sets 256)
POINT_COUNT == 5

\* let mut p: Vec<i32> = vec![0; POINT_COUNT] is about to be filled
InitPerm ==
    /\ InitRender /\ RcIdle /\ WorldIdle /\ HitIdle /\ BoxIdle /\ BvhIdle
    /\ ColorIdle /\ TexIdle /\ SizeIdle
    /\ perm = [pc |-> "call", p |-> [n \in 1 .. POINT_COUNT |-> 0], i |-> 0]

\* perlin_generate_perm up to its call of permute: p[i] = i for every i
PerlinGeneratePerm ==
    /\ perm.pc = "call"
    /\ perm' = [pc |-> "loop", p |-> [n \in 1 .. POINT_COUNT |-> n - 1],
                i |-> POINT_COUNT]
    /\ UNCHANGED offPerm

\* The values random_int_range(0, i) can return.
random_int_range(min, max) == min .. max

\* One iteration of `for i in (0..n).rev()` in permute:
\* tmp = p[i]; p[i] = target as i32; p[target] = tmp
Permute ==
    /\ perm.pc = "loop"
    /\ perm.i > 0
    /\ LET i == perm.i - 1
       IN  \E target \in random_int_range(0, i) :
              LET tmp == At(perm.p, i)
              IN  perm' = [perm EXCEPT
                              !.p = [[@ EXCEPT ![i + 1] = target] EXCEPT ![target + 1] = tmp],
                              !.i = i]
    /\ UNCHANGED offPerm

\* The loop of permute is over and perlin_generate_perm returns p.
PermReturn ==
    /\ perm.pc = "loop"
    /\ perm.i = 0
    /\ perm' = [perm EXCEPT !.pc = "returned"]
    /\ UNCHANGED offPerm

NextPerm ==
    \/ PerlinGeneratePerm
    \/ Permute
    \/ PermReturn

SpecPerm == InitPerm /\ [][NextPerm]_vars

\* C23: the table perlin_generate_perm returns has POINT_COUNT entries and
\* holds every value from 0 to POINT_COUNT - 1 exactly once, whatever the
\* random swap targets were.
C23_IsPermutation ==
    perm.pc = "returned" =>
        /\ Len(perm.p) = POINT_COUNT
        /\ \A v \in 0 .. POINT_COUNT - 1 :
              Cardinality({ n \in 1 .. POINT_COUNT : perm.p[n] = v }) = 1

\* ------------------------------------------------------------ texture.rs
\* images are up to MaxImage pixels wide and high
MaxImage == 3

\* usize::MAX, on the 32-bit integers of the model
UsizeMax == 2147483647

\* `x as usize`: NaN and everything below 0 give 0, the fraction is cut off and
\* the cast saturates.
as_usize(x) ==
    IF IsQNaN(x) THEN 0
    ELSE IF ~IsFinite(x) THEN (IF x.num > 0 THEN UsizeMax ELSE 0)
    ELSE IF x.num < 0 THEN 0
    ELSE x.num \div x.den

\* Texture::Image(img.width, img.height, 3 * img.width, img.data) of load_image
bytes_per_scanline(w) == 3 * w

\* Mutant of ClampIndex: the index is left as computed.
ClampIndexOff(index, size) == index

\* if i >= *w { i = w - 1; }
ClampIndex(index, size) == IF index >= size THEN size - 1 ELSE index

\* The column i and the row j of the Image arm of get_color_value.
image_column(u, w) == ClampIndex(as_usize(qmul(clamp(u, Frac(0, 1), Frac(1, 1)), Frac(w, 1))), w)

image_row(v, h) ==
    ClampIndex(as_usize(qmul(qsub(Frac(1, 1), clamp(v, Frac(0, 1), Frac(1, 1))),
                             Frac(h, 1))), h)

\* The texture coordinates tried: quarters from -1/2 to 3/2, the infinities and NaN.
TexCoords == { Frac(n, 4) : n \in -2 .. 6 } \cup { QNaN, QInf, QNegInf }

InitTex ==
    /\ InitRender /\ RcIdle /\ WorldIdle /\ HitIdle /\ BoxIdle /\ BvhIdle
    /\ ColorIdle /\ PermIdle /\ SizeIdle
    /\ tex \in [pc : { "call" }, w : 1 .. MaxImage, h : 1 .. MaxImage,
                 u : TexCoords, v : TexCoords, i : { 0 }, j : { 0 }, read : { << >> }]

\* get_color_value(u, v, p) on Texture::Image(w, h, bytes_per_scanline, data)
GetColorValue ==
    /\ tex.pc = "call"
    /\ LET i == image_column(tex.u, tex.w)
           j == image_row(tex.v, tex.h)
           offset == j * bytes_per_scanline(tex.w) + i * 3
       IN  tex' = [tex EXCEPT !.i = i, !.j = j,
                              !.read = << offset, offset + 1, offset + 2 >>,
                              !.pc = "read"]
    /\ UNCHANGED offTex

SpecTex == InitTex /\ [][GetColorValue]_vars

\* C24: for an image of width and height at least 1 with 3 * width bytes per
\* scanline, get_color_value computes, for every u and v, a column in
\* [0, width - 1] and a row in [0, height - 1], and the three bytes it reads, at
\* row * stride + 3 * column + {0, 1, 2}, are inside the height * stride bytes
\* of the image.
C24_ReadsInsideImage ==
    tex.pc = "read" =>
        /\ tex.i \in 0 .. tex.w - 1
        /\ tex.j \in 0 .. tex.h - 1
        /\ \A n \in 1 .. 3 :
              /\ tex.read[n] = tex.j * bytes_per_scanline(tex.w) + 3 * tex.i + (n - 1)
              /\ tex.read[n] \in 0 .. tex.h * bytes_per_scanline(tex.w) - 1

C24_Witness ==
    /\ tex.pc = "read"
    /\ qlt(Frac(1, 1), tex.u)
    /\ qlt(tex.v, Frac(0, 1))
    /\ tex.w > 1
    /\ tex.h > 1
    /\ tex.i = tex.w - 1
    /\ tex.j = tex.h - 1
    /\ tex.read[3] = tex.h * bytes_per_scanline(tex.w) - 1

\* ------------------------------------------- main.rs: the samples of a pixel
\* let scene = Scene { samples_per_pixel, .. } for a scene of any sample count
\* from 1 to SamplesPerPixel.
SelectSamples ==
    /\ mainPc = "scene"
    /\ \E spp \in 1 .. SamplesPerPixel :
          samples_per_pixel' = spp
    /\ mainPc' = MainOrder("scene")
    /\ UNCHANGED << panicked, header, spawned, joined, wrow, wi, out, pixel_colors, lock,
                    workerVars, chan, rxAlive, monitorVars >>
    /\ UNCHANGED offRender

NextSamples ==
    \/ SelectSamples
    \/ PrintHeader
    \/ SpawnWorker
    \/ SpawnMonitor
    \/ JoinWorker
    \/ WritePixel
    \/ \E w \in Workers : SamplePixel(w)
    \/ \E w \in Workers : WorkerSend(w)
    \/ \E w \in Workers : AcquireLock(w)
    \/ \E w \in Workers : MergeAll(w)
    \/ \E w \in Workers : WorkerExit(w)
    \/ MonitorPoll
    \/ MonitorCheck

SpecSamples == Init /\ [][NextSamples]_vars

\* C25: the colour of every pixel that is written is the sum of as many samples
\* as the samples_per_pixel write_color divides it by.
C25_SamplesMatchDivisor ==
    \A n \in 1 .. Len(out) : BagCardinality(out[n].color) = out[n].samples

\* ---------------------------------------- main.rs: the progress reports
\* images are up to MaxSide pixels wide and high
MaxSide == 3

\* The render of an image of any width and height, at the point where main has
\* spawned the workers and the monitor and waits in its first join.  Only the
\* progress reports are followed: the private buffers stay black.
InitProgress ==
    /\ RcIdle /\ WorldIdle /\ HitIdle /\ BoxIdle /\ BvhIdle
    /\ ColorIdle /\ PermIdle /\ TexIdle
    /\ image \in [width : 1 .. MaxSide, height : 1 .. MaxSide]
    /\ mainPc = "join"
    /\ panicked = ""
    /\ header = TRUE
    /\ samples_per_pixel = SamplesPerPixel
    /\ spawned = NumWorkers
    /\ joined = 0
    /\ wrow = 0
    /\ wi = 0
    /\ out = << >>
    /\ pixel_colors = BlackBuffer
    /\ lock = Unlocked
    /\ wpc = [w \in Workers |-> "sample"]
    /\ k = [w \in Workers |-> 0]
    /\ local_pixel_colors = [w \in Workers |-> BlackBuffer]
    /\ pixels_left = [w \in Workers |-> image.width * image.height]
    /\ last_change = [w \in Workers |-> 0]
    /\ m = [w \in Workers |-> 0]
    /\ acquisitions = [w \in Workers |-> 0]
    /\ chan = [w \in Workers |-> << >>]
    /\ rxAlive = TRUE
    /\ monPc = "poll"
    /\ monR = 0
    /\ thread_pixel_counts = [w \in Workers |-> image.width * image.height]

\* One iteration of the pixel loops of worker w, as far as the reports go:
\* pixels_left -= 1; last_change += 1; if last_change == 50 { tx.send(..); last_change = 0 }
ProgressPixel(w) ==
    /\ wpc[w] = "sample"
    /\ LET report == last_change[w] + 1 = ReportEvery
       IN  /\ pixels_left' = [pixels_left EXCEPT ![w] = @ - 1]
           /\ last_change' = [last_change EXCEPT ![w] = IF report THEN 0 ELSE @ + 1]
           /\ chan' = IF report /\ rxAlive
                      THEN [chan EXCEPT ![w] = Append(@, << w, pixels_left[w] - 1 >>)]
                      ELSE chan
    /\ k' = [k EXCEPT ![w] = @ + 1]
    /\ wpc' = [wpc EXCEPT ![w] = IF k[w] + 1 >= image.width * image.height
                                 THEN "lock" ELSE "sample"]
    /\ UNCHANGED << mainVars, pixel_colors, lock, local_pixel_colors, m, acquisitions,
                    rxAlive, monitorVars >>
    /\ UNCHANGED offRender

ProgressWorker(w) ==
    ProgressPixel(w) \/ AcquireLock(w) \/ MergeAll(w) \/ WorkerExit(w)

NextProgress ==
    \/ \E w \in Workers : ProgressPixel(w)
    \/ \E w \in Workers : AcquireLock(w)
    \/ \E w \in Workers : MergeAll(w)
    \/ \E w \in Workers : WorkerExit(w)
    \/ MonitorPoll
    \/ MonitorCheck

\* Every worker and the monitor are scheduled again and again.
SpecProgress ==
    /\ InitProgress
    /\ [][NextProgress]_vars
    /\ \A w \in Workers : WF_vars(ProgressWorker(w))
    /\ WF_vars(MonitorNext)

\* C26: whatever the width and height of the image, once every worker is
\* through its pixel loop the monitor comes to hold the count 0 for every
\* worker and leaves its loop, and no count the monitor holds ever goes up.
C26_MonitorLeaves ==
    /\ (\A w \in Workers : FinishedSampling(w))
          ~> (monPc = "exited" /\ \A w \in Workers : thread_pixel_counts[w] = 0)
    /\ [][\A w \in Workers : thread_pixel_counts'[w] <= thread_pixel_counts[w]]_vars

\* C30: the record a Translate returns has the front_face of the record the
\* wrapped hittable returns for the moved ray: a hit of the wrapped primitive
\* from inside is still front_face = false after the translation.
C30_TranslateKeepsFace ==
    (Answered /\ Asked.kind = "Translate" /\ Answer.some /\ InnerOfTranslate.some) =>
        Answer.front_face = InnerOfTranslate.front_face

====
